---- MODULE Spec2Model ----
(***************************************************************************)
(* The read-status store of informant-go (internal/storage/storage.go):    *)
(* the in-memory ReadStatus record of each process, its sync.RWMutex, the  *)
(* status file the record is loaded from and saved to, and the steps of    *)
(* Storage.save.  storage.go holds two definitions of Storage.save: one    *)
(* writes a temporary file and renames it over the status file, the other  *)
(* writes the status file in place.  saveImpl says which one a behaviour   *)
(* runs; every property is checked for both.                               *)
(***************************************************************************)
EXTENDS Integers, Sequences, FiniteSets, TLC

VARIABLES
    saveImpl,      \* "rename" or "inplace": the definition of Storage.save in use
    isSystemWide,  \* Storage.isSystemWide of the handle all processes resolved
    now,           \* the wall clock, as last read by time.Now()
    file,          \* content of the status file (s.filePath), or NoFile
    fileMode,      \* permission bits of the status file, or NoMode
    tmp,           \* content of s.filePath + ".tmp", or NoFile
    tmpMode,       \* permission bits of the temporary file, or NoMode
    procOf,        \* the process each thread belongs to
    pstate,        \* per process: "off", "new", "up", "failed", "crashed", "panicked"
    isRoot,        \* per process: os.Geteuid() == 0
    status,        \* per process: s.status, or NoStore
    mutex,         \* per process: s.mutex
    pc,            \* per thread: where it is in the operation it called
    op,            \* per thread: the operation it called and its argument
    buf,           \* per thread: data, the bytes save marshalled
    fd,            \* per thread: what the file it holds open for writing is
    ret,           \* per thread: what the operation returns
    before,        \* per thread: the status file as it was when its save began
    ops,           \* number of operations called so far
    cmd,           \* the command the process runs and its --no-confirm flag
    loc,           \* where NewWithConfirmation is in locating storage, and its locals
    paths,         \* the system paths and the per-user cache directory on disk
    stdin,         \* what standard input holds
    out,           \* what was printed on standard output, in order
    cache,         \* the files of the cache directory, by path
    cres,          \* what the last cache operation returned
    clog,          \* the cache operations and network requests so far, in order
    chk            \* per process: where its check, list or read command is, and its locals

\* The variables of storage location.
locVars == <<cmd, loc, paths, stdin, out>>

\* The variables of the feed cache.
cacheVars == <<cache, cres, clog>>

\* The variables of the check command.
checkVars == <<chk>>

\* What the operations on the read-status record leave alone.
outsideStore == <<locVars, cacheVars, checkVars>>

vars == <<saveImpl, isSystemWide, now, file, fileMode, tmp, tmpMode, procOf,
          pstate, isRoot, status, mutex, pc, op, buf, fd, ret, before, ops,
          locVars, cacheVars, checkVars>>

(* ------------------------------ bounds --------------------------------- *)

NumIds == 2

MaxTime == 1

MaxAge == 1

NumThreads == 2

MaxOps == 2

NumUrls == 3

\* Distinct values of the digest of a URL.
NumDigests == 2

NumData == 2

\* The most items the configured feeds hold together.
MaxItems == 257

\* Calls of the cache operations in one run.
MaxCacheOps == 3

\* The most items the feeds hold together when list and read are compared.
MaxListItems == 3

(* ------------------------------- values -------------------------------- *)

Threads == 1..NumThreads

Procs == 1..NumThreads

Times == 0..MaxTime

\* An item identifier is a string; identifier i is the i-character string of
\* the character i, so that identifiers differ in length as feed ids do.
Id(i) == [j \in 1..i |-> i]

Ids == {Id(i) : i \in 1..NumIds}

\* No file at the path (distinct from the empty file <<>>).
NoFile == <<<<"nofile", 0>>>>

NoMode == "none"

NoStore == [nostore |-> TRUE]

\* No save of the thread is under way.
NoSave == <<<<"nosave", 0>>>>

NoOp == [kind |-> "none", id |-> <<>>, maxAge |-> 0]

NoRet == [err |-> "none", found |-> FALSE, val |-> 0]

EmptyMap == [k \in {} |-> 0]

Put(f, k, v) == [x \in DOMAIN f \cup {k} |-> IF x = k THEN v ELSE f[x]]

Delete(f, k) == [x \in DOMAIN f \ {k} |-> f[x]]

\* isNil: ReadItems is the nil map, which reads as an empty map and cannot be
\* assigned to.
ReadStatus(items, lc) == [readItems |-> items, lastCheck |-> lc, isNil |-> FALSE]

\* The record json.Unmarshal leaves when read_items is null.
NilReadItems(lc) == [readItems |-> EmptyMap, lastCheck |-> lc, isNil |-> TRUE]

(* --------------------- the serialized status record -------------------- *)

\* A file is a sequence of tokens <<tag, value>>.
Tok(tag, v) == <<tag, v>>

\* Go's encoding/json writes map keys in sorted (string) order.
KeyLess(a, b) ==
    \E k \in 1..(Len(a) + 1) :
        /\ \A j \in 1..(k - 1) : j <= Len(b) /\ a[j] = b[j]
        /\ \/ k = Len(a) + 1 /\ Len(b) >= k
           \/ k <= Len(a) /\ k <= Len(b) /\ a[k] < b[k]

MinKey(S) == CHOOSE k \in S : \A j \in S \ {k} : KeyLess(k, j)

KeyToks(k) == [j \in 1..Len(k) |-> Tok("c", k[j])]

RECURSIVE MarshalItems(_)
MarshalItems(items) ==
    IF DOMAIN items = {} THEN <<>>
    ELSE LET k == MinKey(DOMAIN items)
         IN  <<Tok("q", 0)>> \o KeyToks(k) \o <<Tok("q", 0), Tok("t", items[k])>>
             \o MarshalItems(Delete(items, k))

\* json.MarshalIndent(s.status, "", "  ")
MarshalIndent(st) ==
    <<Tok("{", 0), Tok("read_items", 0)>>
    \o (IF st.isNil THEN <<Tok("null", 0)>> ELSE MarshalItems(st.readItems))
    \o <<Tok("last_check", st.lastCheck), Tok("}", 0)>>

ParseError == [error |-> "parse error"]

\* Position of the quote closing the key that starts at i, 0 when there is none.
KeyEnd(s, i) ==
    LET ends == {j \in i..Len(s) :
                    /\ s[j][1] = "q"
                    /\ \A m \in i..(j - 1) : s[m][1] = "c"}
    IN  IF ends = {} THEN 0 ELSE CHOOSE j \in ends : TRUE

RECURSIVE ParseItems(_, _, _)
ParseItems(s, i, acc) ==
    IF i > Len(s) THEN ParseError
    ELSE IF s[i][1] = "last_check"
    THEN IF i + 1 = Len(s) /\ s[i + 1][1] = "}"
         THEN ReadStatus(acc, s[i][2])
         ELSE ParseError
    ELSE IF s[i][1] = "q"
    THEN LET j == KeyEnd(s, i + 1)
         IN  IF j = 0 \/ j + 1 > Len(s) THEN ParseError
             ELSE IF s[j + 1][1] # "t" THEN ParseError
             ELSE ParseItems(s, j + 2,
                             Put(acc, [m \in 1..(j - i - 1) |-> s[i + m][2]],
                                 s[j + 1][2]))
    ELSE ParseError

\* A decoder that takes unparseable input for an empty record.
UnmarshalLenient(s) ==
    IF Len(s) < 2 THEN ReadStatus(EmptyMap, 0)
    ELSE IF s[1][1] # "{" \/ s[2][1] # "read_items" THEN ReadStatus(EmptyMap, 0)
    ELSE IF ParseItems(s, 3, EmptyMap) = ParseError THEN ReadStatus(EmptyMap, 0)
    ELSE ParseItems(s, 3, EmptyMap)

\* json.Unmarshal(data, s.status) into the freshly made record: the whole input
\* is validated first, then decoded. A null read_items sets the map to nil; a
\* record without read_items leaves the map as it was made.
Unmarshal(s) ==
    IF Len(s) < 2 THEN ParseError
    ELSE IF s[1][1] # "{" THEN ParseError
    ELSE IF s[2][1] = "last_check" THEN ParseItems(s, 2, EmptyMap)
    ELSE IF s[2][1] # "read_items" THEN ParseError
    ELSE IF Len(s) >= 3 /\ s[3][1] = "null"
    THEN IF Len(s) = 5 /\ s[4][1] = "last_check" /\ s[5][1] = "}"
         THEN NilReadItems(s[4][2])
         ELSE ParseError
    ELSE ParseItems(s, 3, EmptyMap)

(* ------------------------------ the clock ------------------------------ *)

\* time.Now(): the clock does not run backwards between two readings.
NowValues == {n \in Times : now <= n /\ n <= now + 1}

(* ---------------------------- initial state ---------------------------- *)

\* Storage location is over and is not looked at.
NoCmd == [name |-> "none", noConfirm |-> FALSE]

NoLoc == [pc |-> "done"]

NoPaths == [none |-> TRUE]

NotLocating ==
    /\ cmd = NoCmd
    /\ loc = NoLoc
    /\ paths = NoPaths
    /\ stdin = <<>>
    /\ out = <<>>

\* The feed cache is not looked at.
NoCres == [op |-> "none"]

NoCache ==
    /\ cache = <<>>
    /\ cres = NoCres
    /\ clog = <<>>

\* No check command is run.
NotChecking == [pc |-> "none"]

NoCheck == chk = [p \in Procs |-> NotChecking]

\* Records an earlier run may have saved.
InitRecords == {ReadStatus(EmptyMap, 0), ReadStatus(Put(EmptyMap, Id(1), 0), 0)}

\* A per-user status file is made with 0644; a system-wide one with 0666 less
\* the umask.
InitModes == IF isSystemWide THEN {"0644", "0666"} ELSE {"0644"}

InitFiles ==
    {<<NoFile, NoMode>>}
    \cup {<<MarshalIndent(r), m>> : r \in InitRecords, m \in InitModes}

InitCommon ==
    /\ saveImpl \in {"rename", "inplace"}
    /\ isSystemWide \in BOOLEAN
    /\ \E f \in InitFiles : file = f[1] /\ fileMode = f[2]
    /\ tmp = NoFile
    /\ tmpMode = NoMode
    /\ status = [p \in Procs |-> NoStore]
    /\ mutex = [p \in Procs |-> [writer |-> 0, readers |-> {}]]
    /\ pc = [t \in Threads |-> "idle"]
    /\ op = [t \in Threads |-> NoOp]
    /\ buf = [t \in Threads |-> <<>>]
    /\ fd = [t \in Threads |-> "none"]
    /\ ret = [t \in Threads |-> NoRet]
    /\ before = [t \in Threads |-> NoSave]
    /\ ops = 0
    /\ NotLocating
    /\ NoCache
    /\ NoCheck

\* A privileged process always resolves system-wide storage, so isRoot implies
\* isSystemWide; process 1 may be the privileged one (the package-manager hook).
InitRoot == {[p \in Procs |-> b /\ p = 1] : b \in {FALSE, isSystemWide}}

\* Each thread is a process of its own: processes sharing one status file,
\* all running within one reading of the clock, after the earlier runs.
Init ==
    /\ InitCommon
    /\ now = MaxTime
    /\ procOf = [t \in Threads |-> t]
    /\ pstate = [p \in Procs |-> "new"]
    /\ isRoot \in InitRoot

\* All threads belong to process 1: goroutines sharing one Storage.
InitLock ==
    /\ InitCommon
    /\ now = 0
    /\ procOf = [t \in Threads |-> 1]
    /\ pstate = [p \in Procs |-> IF p = 1 THEN "new" ELSE "off"]
    /\ isRoot \in InitRoot

\* What is left of a record's file when its writing stopped early: a prefix
\* shorter than the shortest record, the empty file included.
CorruptFiles ==
    {SubSeq(MarshalIndent(r), 1, k) :
        r \in InitRecords, k \in 0..(Len(MarshalIndent(ReadStatus(EmptyMap, 0))) - 1)}

\* One process starting over whatever an earlier run left at the path of the
\* status file: nothing, a saved record, or a corrupt file.
InitLoad ==
    /\ InitCommon!1 /\ InitCommon!2
    /\ \/ \E f \in InitFiles : file = f[1] /\ fileMode = f[2]
       \/ \E f \in CorruptFiles, m \in InitModes : file = f /\ fileMode = m
    /\ tmp = NoFile
    /\ tmpMode = NoMode
    /\ status = [p \in Procs |-> NoStore]
    /\ mutex = [p \in Procs |-> [writer |-> 0, readers |-> {}]]
    /\ pc = [t \in Threads |-> "idle"]
    /\ op = [t \in Threads |-> NoOp]
    /\ buf = [t \in Threads |-> <<>>]
    /\ fd = [t \in Threads |-> "none"]
    /\ ret = [t \in Threads |-> NoRet]
    /\ before = [t \in Threads |-> NoSave]
    /\ ops = 0
    /\ NotLocating
    /\ NoCache
    /\ NoCheck
    /\ now = 0
    /\ procOf = [t \in Threads |-> 1]
    /\ pstate = [p \in Procs |-> IF p = 1 THEN "new" ELSE "off"]
    /\ isRoot \in InitRoot

\* Status files made by hand or by another program that json.Unmarshal
\* accepts: read_items null, and no read_items at all.
EditedFiles ==
    {MarshalIndent(NilReadItems(lc)) : lc \in Times}
    \cup {<<Tok("{", 0), Tok("last_check", lc), Tok("}", 0)>> : lc \in Times}

\* One process starting over such a status file.
InitLoadEdited ==
    /\ InitCommon!1 /\ InitCommon!2
    /\ \E f \in EditedFiles, m \in InitModes : file = f /\ fileMode = m
    /\ tmp = NoFile
    /\ tmpMode = NoMode
    /\ status = [p \in Procs |-> NoStore]
    /\ mutex = [p \in Procs |-> [writer |-> 0, readers |-> {}]]
    /\ pc = [t \in Threads |-> "idle"]
    /\ op = [t \in Threads |-> NoOp]
    /\ buf = [t \in Threads |-> <<>>]
    /\ fd = [t \in Threads |-> "none"]
    /\ ret = [t \in Threads |-> NoRet]
    /\ before = [t \in Threads |-> NoSave]
    /\ ops = 0
    /\ NotLocating
    /\ NoCache
    /\ NoCheck
    /\ now = 0
    /\ procOf = [t \in Threads |-> 1]
    /\ pstate = [p \in Procs |-> IF p = 1 THEN "new" ELSE "off"]
    /\ isRoot \in InitRoot

(* ------------------------------ construction --------------------------- *)

\* A load that leaves the record as it was created.
loadNothing(lc) == ReadStatus(EmptyMap, lc)

\* Storage.load as called by NewWithConfirmation: the record the store holds
\* afterwards, or ParseError when construction fails.
load(lc) ==
    IF file = NoFile THEN ReadStatus(EmptyMap, lc)
    ELSE Unmarshal(file)

NewWithConfirmation(p) ==
    /\ pstate[p] = "new"
    /\ \E lc \in NowValues :
        /\ now' = lc
        /\ LET st == load(lc)
           IN  IF st = ParseError
               THEN /\ pstate' = [pstate EXCEPT ![p] = "failed"]
                    /\ UNCHANGED status
               ELSE /\ pstate' = [pstate EXCEPT ![p] = "up"]
                    /\ status' = [status EXCEPT ![p] = st]
    /\ UNCHANGED <<saveImpl, isSystemWide, file, fileMode, tmp, tmpMode, procOf,
                   isRoot, mutex, pc, op, buf, fd, ret, ops, before>>
    /\ UNCHANGED outsideStore

(* ------------------------------ the lock ------------------------------- *)

IsQuery(o) == o.kind \in {"IsRead", "GetReadTime", "GetReadCount"}

Operations ==
    {[kind |-> k, id |-> i, maxAge |-> 0] :
        k \in {"IsRead", "GetReadTime", "MarkAsRead", "MarkAsUnread"}, i \in Ids}
    \cup {[kind |-> "GetReadCount", id |-> <<>>, maxAge |-> 0]}
    \cup {[kind |-> "Cleanup", id |-> <<>>, maxAge |-> d] : d \in 0..MaxAge}

\* A thread may call an operation of its process's Storage.
Callable(t) ==
    /\ pc[t] = "idle"
    /\ pstate[procOf[t]] = "up"
    /\ ops < MaxOps

\* s.mutex.Lock()
CanLock(m) == m.writer = 0 /\ m.readers = {}

\* A caller enters MarkAsRead, MarkAsUnread or Cleanup and passes s.mutex.Lock().
Lock(t) ==
    /\ Callable(t)
    /\ CanLock(mutex[procOf[t]])
    /\ \E o \in {x \in Operations : ~IsQuery(x)} : op' = [op EXCEPT ![t] = o]
    /\ mutex' = [mutex EXCEPT ![procOf[t]].writer = t]
    /\ pc' = [pc EXCEPT ![t] = "locked"]
    /\ ops' = ops + 1
    /\ UNCHANGED <<saveImpl, isSystemWide, now, file, fileMode, tmp, tmpMode,
                   procOf, pstate, isRoot, status, buf, fd, ret, before>>
    /\ UNCHANGED outsideStore

\* A read lock that does not wait for the writer.
CanRLockAlways(m) == TRUE

\* s.mutex.RLock()
CanRLock(m) == m.writer = 0

\* A caller enters IsRead, GetReadTime or GetReadCount and passes s.mutex.RLock().
RLock(t) ==
    /\ Callable(t)
    /\ CanRLock(mutex[procOf[t]])
    /\ \E o \in {x \in Operations : IsQuery(x)} : op' = [op EXCEPT ![t] = o]
    /\ mutex' = [mutex EXCEPT ![procOf[t]].readers = @ \cup {t}]
    /\ pc' = [pc EXCEPT ![t] = "locked"]
    /\ ops' = ops + 1
    /\ UNCHANGED <<saveImpl, isSystemWide, now, file, fileMode, tmp, tmpMode,
                   procOf, pstate, isRoot, status, buf, fd, ret, before>>
    /\ UNCHANGED outsideStore

\* The deferred s.mutex.Unlock() / s.mutex.RUnlock(), and the return to the
\* caller.
Unlock(t) ==
    /\ pc[t] = "ret"
    /\ mutex' = [mutex EXCEPT ![procOf[t]] =
                    [writer |-> IF @.writer = t THEN 0 ELSE @.writer,
                     readers |-> @.readers \ {t}]]
    /\ pc' = [pc EXCEPT ![t] = "idle"]
    /\ op' = [op EXCEPT ![t] = NoOp]
    /\ ret' = [ret EXCEPT ![t] = NoRet]
    /\ buf' = [buf EXCEPT ![t] = <<>>]
    /\ before' = [before EXCEPT ![t] = NoSave]
    /\ UNCHANGED <<saveImpl, isSystemWide, now, file, fileMode, tmp, tmpMode,
                   procOf, pstate, isRoot, status, fd, ops>>
    /\ UNCHANGED outsideStore

(* ------------------------------- queries ------------------------------- *)

\* A test that takes a zero read time for unread.
IsReadValueNonZero(st, id) ==
    id \in DOMAIN st.readItems /\ st.readItems[id] # 0

\* _, exists := s.status.ReadItems[itemID]
IsReadValue(st, id) == id \in DOMAIN st.readItems

QueryFrame ==
    UNCHANGED <<saveImpl, isSystemWide, now, file, fileMode, tmp, tmpMode,
                procOf, pstate, isRoot, status, mutex, op, buf, fd, ops, before,
                outsideStore>>

IsRead(t) ==
    /\ pc[t] = "locked"
    /\ op[t].kind = "IsRead"
    /\ ret' = [ret EXCEPT ![t] =
                  [err |-> "nil", found |-> IsReadValue(status[procOf[t]], op[t].id),
                   val |-> 0]]
    /\ pc' = [pc EXCEPT ![t] = "ret"]
    /\ QueryFrame

GetReadTime(t) ==
    /\ pc[t] = "locked"
    /\ op[t].kind = "GetReadTime"
    /\ LET items == status[procOf[t]].readItems
           id == op[t].id
       IN  ret' = [ret EXCEPT ![t] =
                      [err |-> "nil", found |-> id \in DOMAIN items,
                       val |-> IF id \in DOMAIN items THEN items[id] ELSE 0]]
    /\ pc' = [pc EXCEPT ![t] = "ret"]
    /\ QueryFrame

GetReadCount(t) ==
    /\ pc[t] = "locked"
    /\ op[t].kind = "GetReadCount"
    /\ ret' = [ret EXCEPT ![t] =
                  [err |-> "nil", found |-> TRUE,
                   val |-> Cardinality(DOMAIN status[procOf[t]].readItems)]]
    /\ pc' = [pc EXCEPT ![t] = "ret"]
    /\ QueryFrame

(* ------------------------------ mutations ------------------------------ *)

MutationFrame ==
    UNCHANGED <<saveImpl, isSystemWide, file, fileMode, tmp, tmpMode, procOf,
                pstate, isRoot, mutex, op, buf, fd, ret, ops, before, outsideStore>>

\* A mark that keeps the read time of an item already read.
MarkAsReadKeepsOld(items, id, at) ==
    IF id \in DOMAIN items THEN items ELSE Put(items, id, at)

\* s.status.ReadItems[itemID] = time.Now()
MarkAsReadItems(items, id, at) == Put(items, id, at)

\* panic: assignment to entry in nil map. The deferred Unlock runs and the
\* process ends; the files stay as they are.
Panic(p) ==
    /\ pstate' = [pstate EXCEPT ![p] = "panicked"]
    /\ status' = [status EXCEPT ![p] = NoStore]
    /\ mutex' = [mutex EXCEPT ![p] = [writer |-> 0, readers |-> {}]]
    /\ pc' = [t \in Threads |-> IF procOf[t] = p THEN "crashed" ELSE pc[t]]
    /\ op' = [t \in Threads |-> IF procOf[t] = p THEN NoOp ELSE op[t]]
    /\ buf' = [t \in Threads |-> IF procOf[t] = p THEN <<>> ELSE buf[t]]
    /\ fd' = [t \in Threads |-> IF procOf[t] = p THEN "none" ELSE fd[t]]
    /\ ret' = [t \in Threads |-> IF procOf[t] = p THEN NoRet ELSE ret[t]]
    /\ before' = [t \in Threads |-> IF procOf[t] = p THEN NoSave ELSE before[t]]
    /\ UNCHANGED <<saveImpl, isSystemWide, now, file, fileMode, tmp, tmpMode,
                   procOf, isRoot, ops>>
    /\ UNCHANGED outsideStore

MarkAsRead(t) ==
    /\ pc[t] = "locked"
    /\ op[t].kind = "MarkAsRead"
    /\ IF status[procOf[t]].isNil
       THEN Panic(procOf[t])
       ELSE /\ \E at \in NowValues :
                /\ now' = at
                /\ status' = [status EXCEPT ![procOf[t]].readItems =
                                 MarkAsReadItems(@, op[t].id, at)]
            /\ pc' = [pc EXCEPT ![t] = "save"]
            /\ MutationFrame

\* A removal that empties the map.
MarkAsUnreadClears(items, id) == EmptyMap

\* delete(s.status.ReadItems, itemID)
MarkAsUnreadItems(items, id) == Delete(items, id)

MarkAsUnread(t) ==
    /\ pc[t] = "locked"
    /\ op[t].kind = "MarkAsUnread"
    /\ status' = [status EXCEPT ![procOf[t]].readItems =
                     MarkAsUnreadItems(@, op[t].id)]
    /\ pc' = [pc EXCEPT ![t] = "save"]
    /\ UNCHANGED now
    /\ MutationFrame

\* A cutoff test that also removes an entry read exactly at the cutoff.
ExpiredAtCutoff(readTime, at, maxAge) == readTime <= at - maxAge

\* readTime.Before(cutoff), cutoff == time.Now().Add(-maxAge)
Expired(readTime, at, maxAge) == readTime < at - maxAge

CleanupItems(items, at, maxAge) ==
    [k \in {x \in DOMAIN items : ~Expired(items[x], at, maxAge)} |-> items[k]]

Cleanup(t) ==
    /\ pc[t] = "locked"
    /\ op[t].kind = "Cleanup"
    /\ \E at \in NowValues :
        /\ now' = at
        /\ status' = [status EXCEPT ![procOf[t]].readItems =
                         CleanupItems(@, at, op[t].maxAge)]
    /\ pc' = [pc EXCEPT ![t] = "save"]
    /\ MutationFrame

(* ------------------------------- save ---------------------------------- *)

\* Error values of save, named after what their messages say failed.
ErrWriteTmp == "failed to write temporary file"

ErrRename == "failed to rename temporary file"

ErrWrite == "failed to write file"

ErrChmod == "failed to set file permissions"

Fail(t, e) ==
    /\ ret' = [ret EXCEPT ![t] = [err |-> e, found |-> FALSE, val |-> 0]]
    /\ pc' = [pc EXCEPT ![t] = "ret"]

\* return nil
Return(t) ==
    /\ ret' = [ret EXCEPT ![t] = [err |-> "nil", found |-> FALSE, val |-> 0]]
    /\ pc' = [pc EXCEPT ![t] = "ret"]

\* perm: 0644, or 0666 for system-wide storage.
Perm == IF isSystemWide THEN "0666" ELSE "0644"

Umasks == {"000", "022"}

\* The mode a file created with perm gets under the process's umask.
CreateMode(perm, umask) ==
    IF perm = "0666" /\ umask = "000" THEN "0666" ELSE "0644"

\* A save that writes the status file's own path before renaming.
WritePathTarget == "file"

\* The path os.WriteFile is given.
WritePath == IF saveImpl = "rename" THEN "tmp" ELSE "file"

\* s.status.LastCheck = time.Now(); data, err := json.MarshalIndent(...).
\* The directory of the status file exists (the locator made or probed it), so
\* neither definition's MkdirAll branch can fail; the record always marshals.
save(t) ==
    /\ pc[t] = "save"
    /\ \E at \in NowValues :
        /\ now' = at
        /\ status' = [status EXCEPT ![procOf[t]].lastCheck = at]
        /\ buf' = [buf EXCEPT ![t] = MarshalIndent(status'[procOf[t]])]
    /\ pc' = [pc EXCEPT ![t] = "open"]
    /\ before' = [before EXCEPT ![t] = file]
    /\ UNCHANGED <<saveImpl, isSystemWide, file, fileMode, tmp, tmpMode, procOf,
                   pstate, isRoot, mutex, op, fd, ret, ops>>
    /\ UNCHANGED outsideStore

\* os.WriteFile, first half: OpenFile(name, O_WRONLY|O_CREATE|O_TRUNC, perm).
\* The file is created when absent and emptied when present.
WriteFileOpen(t) ==
    /\ pc[t] = "open"
    /\ \/ /\ WritePath = "tmp"
          /\ tmp' = <<>>
          /\ \E u \in Umasks :
                tmpMode' = IF tmp = NoFile THEN CreateMode(Perm, u) ELSE tmpMode
          /\ fd' = [fd EXCEPT ![t] = "tmp"]
          /\ pc' = [pc EXCEPT ![t] = "write"]
          /\ UNCHANGED <<file, fileMode, ret>>
       \/ /\ WritePath = "file"
          /\ file' = <<>>
          /\ \E u \in Umasks :
                fileMode' = IF file = NoFile THEN CreateMode(Perm, u) ELSE fileMode
          /\ fd' = [fd EXCEPT ![t] = "file"]
          /\ pc' = [pc EXCEPT ![t] = "write"]
          /\ UNCHANGED <<tmp, tmpMode, ret>>
       \/ /\ Fail(t, IF saveImpl = "rename" THEN ErrWriteTmp ELSE ErrWrite)
          /\ UNCHANGED <<file, fileMode, tmp, tmpMode, fd>>
    /\ UNCHANGED <<saveImpl, isSystemWide, now, procOf, pstate, isRoot, status,
                   mutex, op, buf, ops, before>>
    /\ UNCHANGED outsideStore

\* A write of data at offset 0 of an open file.
WriteAt0(content, data) ==
    data \o SubSeq(content, Len(data) + 1, Len(content))

\* How much of data a write puts in the file before it stops: nothing, half,
\* or all of it.
WriteLens(data) == {0, Len(data) \div 2, Len(data)}

\* A save that starts over once the data is written.
AfterWriteSaveAgain == "save"

\* A save that never renames the temporary file over the status file.
AfterWriteNoRename == "chmod"

\* What follows a successful os.WriteFile.
AfterWrite == IF saveImpl = "rename" THEN "rename" ELSE "chmod"

\* os.WriteFile, second half: f.Write(data) and f.Close().  The write may stop
\* part way with an error; Close may fail after a full write.
WriteFileWrite(t) ==
    /\ pc[t] = "write"
    /\ \E k \in WriteLens(buf[t]) :
        LET data == SubSeq(buf[t], 1, k)
        IN  /\ CASE fd[t] = "tmp" ->
                      /\ tmp' = WriteAt0(tmp, data)
                      /\ UNCHANGED file
                 [] fd[t] = "file" ->
                      /\ file' = WriteAt0(file, data)
                      /\ UNCHANGED tmp
                 [] OTHER -> UNCHANGED <<file, tmp>>
            /\ \/ /\ k = Len(buf[t])
                  /\ pc' = [pc EXCEPT ![t] = AfterWrite]
                  /\ UNCHANGED ret
               \/ Fail(t, IF saveImpl = "rename" THEN ErrWriteTmp ELSE ErrWrite)
    /\ fd' = [fd EXCEPT ![t] = "none"]
    /\ UNCHANGED <<saveImpl, isSystemWide, now, fileMode, tmpMode, procOf, pstate,
                   isRoot, status, mutex, op, buf, ops, before>>
    /\ UNCHANGED outsideStore

\* What an open file is after the temporary path was renamed over the status
\* file's path: the file keeps being written through the descriptors open on it.
FdAfterRename(f) ==
    CASE f = "tmp" -> "file"
      [] f = "file" -> "orphan"
      [] OTHER -> f

FdAfterRemove(f) == IF f = "tmp" THEN "orphan" ELSE f

\* os.Rename(tempFile, s.filePath), and os.Remove(tempFile) when it fails.
Rename(t) ==
    /\ pc[t] = "rename"
    /\ \/ /\ tmp # NoFile
          /\ file' = tmp
          /\ fileMode' = tmpMode
          /\ tmp' = NoFile
          /\ tmpMode' = NoMode
          /\ fd' = [u \in Threads |-> FdAfterRename(fd[u])]
          /\ pc' = [pc EXCEPT ![t] = "chmod"]
          /\ UNCHANGED ret
       \/ /\ Fail(t, ErrRename)
          /\ \/ /\ tmp' = NoFile
                /\ tmpMode' = NoMode
                /\ fd' = [u \in Threads |-> FdAfterRemove(fd[u])]
             \/ UNCHANGED <<tmp, tmpMode, fd>>
          /\ UNCHANGED <<file, fileMode>>
    /\ UNCHANGED <<saveImpl, isSystemWide, now, procOf, pstate, isRoot, status,
                   mutex, op, buf, ops, before>>
    /\ UNCHANGED outsideStore

\* Whether save goes on to os.Chmod(s.filePath, 0666).
NeedsChmod(p) ==
    IF saveImpl = "rename"
    THEN isSystemWide
    ELSE isSystemWide /\ isRoot[p] /\ file # NoFile /\ fileMode # "0666"

\* The final permissions of save, and its return.
Chmod(t) ==
    /\ pc[t] = "chmod"
    /\ \/ /\ NeedsChmod(procOf[t])
          /\ file # NoFile
          /\ fileMode' = "0666"
          /\ Return(t)
       \/ /\ NeedsChmod(procOf[t])
          /\ Fail(t, ErrChmod)
          /\ UNCHANGED <<fileMode>>
       \/ /\ ~NeedsChmod(procOf[t])
          /\ Return(t)
          /\ UNCHANGED fileMode
    /\ UNCHANGED <<saveImpl, isSystemWide, now, file, tmp, tmpMode, procOf, pstate,
                   isRoot, status, mutex, op, buf, fd, ops, before>>
    /\ UNCHANGED outsideStore

(* ------------------------------- crash --------------------------------- *)

\* Where a save has begun and has not yet put the new record in place.
Interruptible == {"open", "write", "rename"}

\* The process dies: its memory and its open descriptors are gone, the files
\* stay as they are.  before keeps what the status file held when the save
\* that the crash interrupted began.
Crash(p) ==
    /\ pstate[p] = "up"
    /\ pstate' = [pstate EXCEPT ![p] = "crashed"]
    /\ status' = [status EXCEPT ![p] = NoStore]
    /\ mutex' = [mutex EXCEPT ![p] = [writer |-> 0, readers |-> {}]]
    /\ pc' = [t \in Threads |-> IF procOf[t] = p THEN "crashed" ELSE pc[t]]
    /\ op' = [t \in Threads |-> IF procOf[t] = p THEN NoOp ELSE op[t]]
    /\ buf' = [t \in Threads |-> IF procOf[t] = p THEN <<>> ELSE buf[t]]
    /\ fd' = [t \in Threads |-> IF procOf[t] = p THEN "none" ELSE fd[t]]
    /\ ret' = [t \in Threads |-> IF procOf[t] = p THEN NoRet ELSE ret[t]]
    /\ before' = [t \in Threads |->
                     IF procOf[t] = p /\ pc[t] \notin Interruptible
                     THEN NoSave ELSE before[t]]
    /\ UNCHANGED <<saveImpl, isSystemWide, now, file, fileMode, tmp, tmpMode,
                   procOf, isRoot, ops>>
    /\ UNCHANGED outsideStore

Next ==
    \/ \E p \in Procs : NewWithConfirmation(p)
    \/ \E t \in Threads : Lock(t)
    \/ \E t \in Threads : RLock(t)
    \/ \E t \in Threads : Unlock(t)
    \/ \E t \in Threads : IsRead(t)
    \/ \E t \in Threads : GetReadTime(t)
    \/ \E t \in Threads : GetReadCount(t)
    \/ \E t \in Threads : MarkAsRead(t)
    \/ \E t \in Threads : MarkAsUnread(t)
    \/ \E t \in Threads : Cleanup(t)
    \/ \E t \in Threads : save(t)
    \/ \E t \in Threads : WriteFileOpen(t)
    \/ \E t \in Threads : WriteFileWrite(t)
    \/ \E t \in Threads : Rename(t)
    \/ \E t \in Threads : Chmod(t)
    \/ \E p \in Procs : Crash(p)

Spec == Init /\ [][Next]_vars

SpecLock == InitLock /\ [][Next]_vars

SpecLoad == InitLoad /\ [][Next]_vars

SpecLoadEdited == InitLoadEdited /\ [][Next]_vars

(* --------------------------- waiting for the lock ---------------------- *)

\* A caller enters a Storage method and reaches s.mutex.Lock() or RLock().
Call(t) ==
    /\ Callable(t)
    /\ \E o \in Operations : op' = [op EXCEPT ![t] = o]
    /\ pc' = [pc EXCEPT ![t] = "waiting"]
    /\ ops' = ops + 1
    /\ UNCHANGED <<saveImpl, isSystemWide, now, file, fileMode, tmp, tmpMode,
                   procOf, pstate, isRoot, status, mutex, buf, fd, ret, before>>
    /\ UNCHANGED outsideStore

\* A goroutine of the process is blocked in s.mutex.Lock().
WriterWaiting(p) ==
    \E u \in Threads : procOf[u] = p /\ pc[u] = "waiting" /\ ~IsQuery(op[u])

\* s.mutex.Lock() or RLock() returns. sync.RWMutex lets no new reader in while
\* a writer is blocked in Lock.
Acquire(t) ==
    /\ pc[t] = "waiting"
    /\ IF IsQuery(op[t])
       THEN /\ CanRLock(mutex[procOf[t]])
            /\ ~WriterWaiting(procOf[t])
            /\ mutex' = [mutex EXCEPT ![procOf[t]].readers = @ \cup {t}]
       ELSE /\ CanLock(mutex[procOf[t]])
            /\ mutex' = [mutex EXCEPT ![procOf[t]].writer = t]
    /\ pc' = [pc EXCEPT ![t] = "locked"]
    /\ UNCHANGED <<saveImpl, isSystemWide, now, file, fileMode, tmp, tmpMode,
                   procOf, pstate, isRoot, status, op, buf, fd, ret, ops, before>>
    /\ UNCHANGED outsideStore

\* What a goroutine does between acquiring the lock and returning.
Body(t) ==
    \/ IsRead(t) \/ GetReadTime(t) \/ GetReadCount(t)
    \/ MarkAsRead(t) \/ MarkAsUnread(t) \/ Cleanup(t)
    \/ save(t) \/ WriteFileOpen(t) \/ WriteFileWrite(t) \/ Rename(t) \/ Chmod(t)
    \/ Unlock(t)

NextWaiting ==
    \/ \E p \in Procs : NewWithConfirmation(p)
    \/ \E t \in Threads : Call(t)
    \/ \E t \in Threads : Acquire(t)
    \/ \E t \in Threads : Body(t)

\* The Go scheduler runs every runnable goroutine, and sync.RWMutex hands the
\* lock to a goroutine blocked on it: no waiter is passed over forever.
Fairness ==
    \A t \in Threads : WF_vars(Body(t)) /\ SF_vars(Acquire(t))

\* Goroutines sharing one Storage made over a status file the program wrote,
\* or over one with read_items null or absent.
SpecWaiting ==
    (InitLock \/ InitLoadEdited) /\ [][NextWaiting]_vars /\ Fairness

(* --------------------------- storage location -------------------------- *)

\* storage.go holds two definitions of the locator as it does of save; the
\* first is the one whose save renames.
FirstDefinition == saveImpl = "rename"

Commands == {"check", "tui", "list", "read"}

\* requireConfirmation as each command passes it: check and tui call
\* storage.New(), which is NewWithConfirmation(true); list and read pass
\* !viper.GetBool("no-confirm").
RequireConfirmation(c) ==
    IF c.name \in {"check", "tui"} THEN TRUE ELSE ~c.noConfirm

\* Permission bits of a root-owned directory or file, as another user meets
\* them: 0755 and 0644 keep that user from writing, 0777 and 0666 do not.
DirStates == {"missing", "0755", "0777"}

FileStates == {"absent", "0644", "0666"}

\* The cache path may also be taken by something that is no directory.
CacheDirStates == DirStates \cup {"file"}

\* What an earlier run or the installation left at the system paths and at the
\* per-user cache directory.  The status file is in its directory.
InitPaths ==
    {[libDir |-> l, sysFile |-> f, sysCache |-> c, userCache |-> u] :
        l \in DirStates, f \in FileStates, c \in CacheDirStates,
        u \in {"absent", "present"}}
    \ {x \in [libDir : DirStates, sysFile : FileStates, sysCache : CacheDirStates,
              userCache : {"absent", "present"}] :
          x.libDir = "missing" /\ x.sysFile # "absent"}

\* What standard input may hold: a line, or input that ends before a newline.
Answers ==
    { <<"y", "\n">>, <<"Y", "\n">>, <<"y", "e", "s", "\n">>,
      <<" ", "Y", "e", "S", " ", "\n">>, <<"n", "\n">>, <<"\n">>,
      <<"y", "e", "\n">>, <<"y">>, <<>> }

\* strings.ToLower, on the characters of the answers: one character, then
\* the string.
ToLowerChar(c) ==
    CASE c = "Y" -> "y"
      [] c = "E" -> "e"
      [] c = "S" -> "s"
      [] OTHER -> c

\* A lowering that leaves the answer as typed.
ToLowerNone(str) == str

ToLower(str) == [i \in 1..Len(str) |-> ToLowerChar(str[i])]

IsSpace(c) == c \in {" ", "\n", "\t", "\r"}

\* strings.TrimSpace
TrimSpace(str) ==
    LET keep == {i \in 1..Len(str) : ~IsSpace(str[i])}
    IN  IF keep = {} THEN <<>>
        ELSE SubSeq(str, CHOOSE i \in keep : \A j \in keep : i <= j,
                         CHOOSE i \in keep : \A j \in keep : i >= j)

\* reader.ReadString('\n'): the input up to and including the first newline,
\* or everything there is together with an error.
ReadString(input) ==
    LET nl == {i \in 1..Len(input) : input[i] = "\n"}
    IN  IF nl = {} THEN [line |-> input, err |-> TRUE]
        ELSE [line |-> SubSeq(input, 1, CHOOSE i \in nl : \A j \in nl : i <= j),
              err |-> FALSE]

\* A confirmation that takes any input for consent.
ConfirmedAlways(input) == TRUE

\* What confirmFallback returns for the input.
Confirmed(input) ==
    /\ ~ReadString(input).err
    /\ TrimSpace(ToLower(ReadString(input).line)) \in {<<"y">>, <<"y", "e", "s">>}

ErrCreateSystemDirectories == "failed to create system directories"

ErrDeclined == "user declined to use per-user storage"

ErrUserPaths == "failed to get user storage paths"

\* A directory is the sequence of the names on its path; <<>> is no directory.
HomeDir == <<"home", "u">>

\* filepath.Join(dir, name)
Join(dir, name) == Append(dir, name)

\* What GetConfigPath looks at: the directory of viper.ConfigFileUsed() (<<>>
\* when no configuration file is in use), os.UserHomeDir() (<<>> when it
\* fails), $XDG_CONFIG_HOME (<<>> when unset or empty), and whether ~/.config
\* exists.
ConfigEnvs ==
    [used : {<<>>, <<"etc">>, HomeDir}, home : {<<>>, HomeDir},
     xdg : {<<>>, <<"xdg">>}, dotConfig : BOOLEAN]

ErrHomeDir == "failed to get home directory"

GetConfigPath(env) ==
    IF env.used # <<>> THEN [path |-> env.used, err |-> "nil"]
    ELSE IF env.home = <<>> THEN [path |-> <<>>, err |-> ErrHomeDir]
    ELSE IF env.xdg # <<>> THEN [path |-> env.xdg, err |-> "nil"]
    ELSE IF ~env.dotConfig THEN [path |-> env.home, err |-> "nil"]
    ELSE [path |-> Join(env.home, ".config"), err |-> "nil"]

\* The locals of NewWithConfirmation before it is called. filePath and
\* cacheDir say which storage was chosen; userFile and userCache are the
\* per-user paths once getUserStoragePaths has computed them from env.
LocStart ==
    [pc |-> "cmd", req |-> FALSE, filePath |-> "", cacheDir |-> "", err |-> "nil",
     probed |-> FALSE, response |-> <<>>, readStdin |-> FALSE,
     env |-> [used |-> <<>>, home |-> <<>>, xdg |-> <<>>, dotConfig |-> FALSE],
     userFile |-> <<>>, userCache |-> <<>>]

\* One process about to run a command, privileged or not, over any state of
\* the system paths.
InitLocate ==
    /\ saveImpl \in {"rename", "inplace"}
    /\ isSystemWide = FALSE
    /\ file = NoFile /\ fileMode = NoMode
    /\ tmp = NoFile /\ tmpMode = NoMode
    /\ status = [p \in Procs |-> NoStore]
    /\ mutex = [p \in Procs |-> [writer |-> 0, readers |-> {}]]
    /\ pc = [t \in Threads |-> "idle"]
    /\ op = [t \in Threads |-> NoOp]
    /\ buf = [t \in Threads |-> <<>>]
    /\ fd = [t \in Threads |-> "none"]
    /\ ret = [t \in Threads |-> NoRet]
    /\ before = [t \in Threads |-> NoSave]
    /\ ops = 0
    /\ now = 0
    /\ procOf = [t \in Threads |-> 1]
    /\ pstate = [p \in Procs |-> IF p = 1 THEN "locating" ELSE "off"]
    /\ isRoot \in {[p \in Procs |-> b /\ p = 1] : b \in BOOLEAN}
    /\ cmd \in [name : Commands, noConfirm : BOOLEAN]
    /\ loc = LocStart
    /\ paths \in InitPaths
    /\ stdin \in Answers
    /\ out = <<>>
    /\ NoCache
    /\ NoCheck

\* What the locator leaves alone.
outsideLocator ==
    <<saveImpl, now, file, fileMode, tmp, tmpMode, procOf, isRoot, status, mutex,
      pc, op, buf, fd, ret, before, ops, cmd, cacheVars, checkVars>>

\* The locator ends: with the paths it chose, the store is made and is about
\* to load; with an error, NewWithConfirmation returns no store.
Located(p, where) ==
    /\ loc' = [loc EXCEPT !.pc = "done", !.filePath = where, !.cacheDir = where]
    /\ isSystemWide' = (where = "system")
    /\ pstate' = [pstate EXCEPT ![p] = "new"]

LocateFails(p, e) ==
    /\ loc' = [loc EXCEPT !.pc = "done", !.err = e]
    /\ pstate' = [pstate EXCEPT ![p] = "failed"]
    /\ UNCHANGED isSystemWide

\* The command's RunE calls storage.New() or storage.NewWithConfirmation.
Run(p) ==
    /\ pstate[p] = "locating"
    /\ loc.pc = "cmd"
    /\ loc' = [loc EXCEPT !.pc = "start", !.req = RequireConfirmation(cmd)]
    /\ UNCHANGED <<isSystemWide, pstate, paths, stdin, out>>
    /\ UNCHANGED outsideLocator

\* os.MkdirAll(dir, 0755): nothing to do for a directory that is there; a
\* missing one is made, or is not (read-only file system).
MkdirAll(dir, ok) ==
    IF dir = "missing" THEN (IF ok THEN "0755" ELSE "missing") ELSE dir

MkdirAllFails(dir, ok) == dir = "file" \/ (dir = "missing" /\ ~ok)

\* A createSystemDirectories that never sets the permissions.
NeedsDirChmodNever(mode) == FALSE

\* Whether createSystemDirectories calls os.Chmod(cacheDir, 0777): always in
\* the first definition, only for other permission bits in the second.
NeedsDirChmod(mode) == FirstDefinition \/ mode # "0777"

\* The privileged branch: createSystemDirectories, then the system paths.
createSystemDirectories(p) ==
    /\ pstate[p] = "locating"
    /\ loc.pc = "start"
    /\ isRoot[p]
    /\ \E okLib \in BOOLEAN, okCache \in BOOLEAN, okChmod \in BOOLEAN :
        LET libErr == MkdirAllFails(paths.libDir, okLib)
            cacheErr == ~libErr /\ MkdirAllFails(paths.sysCache, okCache)
            cache1 == IF libErr THEN paths.sysCache
                      ELSE MkdirAll(paths.sysCache, okCache)
            chmod == ~libErr /\ ~cacheErr /\ NeedsDirChmod(cache1)
            chmodErr == chmod /\ ~okChmod
        IN  /\ paths' = [paths EXCEPT
                            !.libDir = MkdirAll(@, okLib),
                            !.sysCache = IF chmod /\ okChmod THEN "0777" ELSE cache1]
            /\ IF libErr \/ cacheErr \/ chmodErr
               THEN LocateFails(p, ErrCreateSystemDirectories)
               ELSE Located(p, "system")
    /\ UNCHANGED <<stdin, out>>
    /\ UNCHANGED outsideLocator

\* canWriteToDirectory: the directory is there, is a directory, and a marker
\* file can be written in it (and is removed again).
canWriteToDirectory(dir) == dir = "0777"

\* testWrite of the first definition: a marker file can be written in dir.
testWrite(dir) == dir = "0777"

\* canWriteToFile: an absent file is as writable as its directory; a file
\* that is there must open with O_WRONLY.
canWriteToFile ==
    IF paths.sysFile = "absent" THEN canWriteToDirectory(paths.libDir)
    ELSE paths.sysFile = "0666"

canUseSystemStorage ==
    IF FirstDefinition
    THEN testWrite(paths.libDir) /\ testWrite(paths.sysCache)
    ELSE canWriteToFile /\ canWriteToDirectory(paths.sysCache)

\* A fallback that asks for confirmation whatever the mode.
FallbackStepAsks(req) == "confirm"

\* The fallback branch: confirmFallback when confirmation is required, the
\* bare warning otherwise.
FallbackStep(req) == IF req THEN "confirm" ELSE "warn"

\* The unprivileged branch: the probes, and where they lead.
SelectStorage(p) ==
    /\ pstate[p] = "locating"
    /\ loc.pc = "start"
    /\ ~isRoot[p]
    /\ IF canUseSystemStorage
       THEN /\ loc' = [loc EXCEPT !.probed = TRUE, !.pc = "done",
                                  !.filePath = "system", !.cacheDir = "system"]
            /\ isSystemWide' = TRUE
            /\ pstate' = [pstate EXCEPT ![p] = "new"]
       ELSE /\ loc' = [loc EXCEPT !.probed = TRUE,
                                  !.pc = FallbackStep(loc.req)]
            /\ UNCHANGED <<isSystemWide, pstate>>
    /\ UNCHANGED <<paths, stdin, out>>
    /\ UNCHANGED outsideLocator

\* confirmFallback: the warning, the prompt, and one line of standard input.
confirmFallback(p) ==
    /\ pstate[p] = "locating"
    /\ loc.pc = "confirm"
    /\ out' = out \o <<"warning", "prompt">>
    /\ stdin' = <<>>
    /\ IF Confirmed(stdin)
       THEN /\ loc' = [loc EXCEPT !.pc = "userpaths", !.readStdin = TRUE,
                                  !.response = ReadString(stdin).line]
            /\ UNCHANGED <<isSystemWide, pstate>>
       ELSE /\ loc' = [loc EXCEPT !.pc = "done", !.err = ErrDeclined,
                                  !.readStdin = TRUE,
                                  !.response = ReadString(stdin).line]
            /\ pstate' = [pstate EXCEPT ![p] = "failed"]
            /\ UNCHANGED isSystemWide
    /\ UNCHANGED paths
    /\ UNCHANGED outsideLocator

\* showStorageFallbackWarning, when no confirmation is required.
showStorageFallbackWarning(p) ==
    /\ pstate[p] = "locating"
    /\ loc.pc = "warn"
    /\ out' = out \o <<"warning">>
    /\ loc' = [loc EXCEPT !.pc = "userpaths"]
    /\ UNCHANGED <<isSystemWide, pstate, paths, stdin>>
    /\ UNCHANGED outsideLocator

\* getUserStoragePaths: config.GetConfigPath may fail (no home directory);
\* os.MkdirAll of the per-user cache directory may fail when it has to make it.
getUserStoragePaths(p) ==
    /\ pstate[p] = "locating"
    /\ loc.pc = "userpaths"
    /\ \E env \in ConfigEnvs :
        LET configPath == GetConfigPath(env)
        IN  \/ /\ configPath.err = "nil"
               /\ loc' = [loc EXCEPT
                             !.pc = "done", !.filePath = "user", !.cacheDir = "user",
                             !.env = env,
                             !.userFile = Join(configPath.path,
                                               ".informant_read_status.json"),
                             !.userCache = Join(configPath.path, ".informant_cache")]
               /\ isSystemWide' = FALSE
               /\ pstate' = [pstate EXCEPT ![p] = "new"]
               /\ paths' = [paths EXCEPT !.userCache = "present"]
            \/ /\ configPath.err # "nil"
               /\ LocateFails(p, ErrUserPaths)
               /\ UNCHANGED paths
            \/ /\ configPath.err = "nil"
               /\ paths.userCache = "absent"
               /\ LocateFails(p, ErrUserPaths)
               /\ UNCHANGED paths
    /\ UNCHANGED <<stdin, out>>
    /\ UNCHANGED outsideLocator

NextLocate ==
    \/ \E p \in Procs : Run(p)
    \/ \E p \in Procs : createSystemDirectories(p)
    \/ \E p \in Procs : SelectStorage(p)
    \/ \E p \in Procs : confirmFallback(p)
    \/ \E p \in Procs : showStorageFallbackWarning(p)
    \/ \E p \in Procs : getUserStoragePaths(p)

SpecLocate == InitLocate /\ [][NextLocate]_vars

(* ------------------------- the first save ------------------------------ *)

\* An unprivileged process about to run a command, over any state of the
\* system paths; sysTmp is what is at the status file's path + ".tmp", where a
\* save of another user that failed or was interrupted may have left a file.
InitFirstSave ==
    /\ saveImpl \in {"rename", "inplace"}
    /\ isSystemWide = FALSE
    /\ file = NoFile /\ fileMode = NoMode
    /\ tmp = NoFile /\ tmpMode = NoMode
    /\ status = [p \in Procs |-> NoStore]
    /\ mutex = [p \in Procs |-> [writer |-> 0, readers |-> {}]]
    /\ pc = [t \in Threads |-> "idle"]
    /\ op = [t \in Threads |-> NoOp]
    /\ buf = [t \in Threads |-> <<>>]
    /\ fd = [t \in Threads |-> "none"]
    /\ ret = [t \in Threads |-> NoRet]
    /\ before = [t \in Threads |-> NoSave]
    /\ ops = 0
    /\ now = 0
    /\ procOf = [t \in Threads |-> 1]
    /\ pstate = [p \in Procs |-> IF p = 1 THEN "locating" ELSE "off"]
    /\ isRoot = [p \in Procs |-> FALSE]
    /\ cmd \in [name : Commands, noConfirm : BOOLEAN]
    /\ loc = LocStart
    /\ \E ps \in InitPaths, t \in FileStates :
          /\ ps.libDir = "missing" => t = "absent"
          /\ paths = [libDir |-> ps.libDir, sysFile |-> ps.sysFile,
                      sysCache |-> ps.sysCache, userCache |-> ps.userCache,
                      sysTmp |-> t]
    /\ stdin \in Answers
    /\ out = <<>>
    /\ NoCache
    /\ NoCheck

\* The error save returns for lack of a permission, "nil" when it lacks none.
\* First definition: os.WriteFile of the temporary file creates it in the
\* directory or opens the one that is there; os.Rename needs the directory;
\* os.Chmod needs the process to own the file, which it does when it created
\* the temporary file. Second definition: os.WriteFile of the status file.
SaveDenied(ps) ==
    IF FirstDefinition
    THEN IF ~(IF ps.sysTmp = "absent" THEN canWriteToDirectory(ps.libDir)
              ELSE ps.sysTmp = "0666")
         THEN ErrWriteTmp
         ELSE IF ~canWriteToDirectory(ps.libDir) THEN ErrRename
         ELSE IF ps.sysTmp # "absent" THEN ErrChmod
         ELSE "nil"
    ELSE IF ~(IF ps.sysFile = "absent" THEN canWriteToDirectory(ps.libDir)
              ELSE ps.sysFile = "0666")
         THEN ErrWrite
         ELSE "nil"

\* The first save of a process that chose the system paths, with no failure
\* but those of permissions: a file the process creates is its own.
FirstSave(p) ==
    /\ pstate[p] = "new"
    /\ loc.pc = "done"
    /\ loc.filePath = "system"
    /\ loc' = [loc EXCEPT !.pc = "saved", !.err = SaveDenied(paths)]
    /\ paths' = IF SaveDenied(paths) # "nil" THEN paths
                ELSE IF FirstDefinition
                THEN [paths EXCEPT !.sysFile = "own", !.sysTmp = "absent"]
                ELSE [paths EXCEPT !.sysFile = IF @ = "absent" THEN "own" ELSE @]
    /\ pstate' = [pstate EXCEPT ![p] = "up"]
    /\ UNCHANGED <<isSystemWide, stdin, out>>
    /\ UNCHANGED outsideLocator

NextFirstSave ==
    \/ \E p \in Procs : Run(p)
    \/ \E p \in Procs : SelectStorage(p)
    \/ \E p \in Procs : confirmFallback(p)
    \/ \E p \in Procs : showStorageFallbackWarning(p)
    \/ \E p \in Procs : getUserStoragePaths(p)
    \/ \E p \in Procs : FirstSave(p)

SpecFirstSave == InitFirstSave /\ [][NextFirstSave]_vars

(* ------------------------------ feed cache ----------------------------- *)

\* Feed URLs, and the bytes a feed may consist of.
Urls == 1..NumUrls

DataValues == 1..NumData

\* No bytes: the nil slice.
NoData == 0

\* What a response body may be: some bytes, or none.
Bodies == DataValues \cup {NoData}

\* md5.Sum([]byte(url)): sixteen bytes for a string of any length, so that
\* distinct URLs can have one digest; here the URLs that differ by a multiple
\* of NumDigests have.
md5(url) == <<"md5", url % NumDigests>>

\* getCacheFilePath: the cache directory joined with the digest and ".json".
getCacheFilePath(url) == <<"cacheDir", md5(url), ".json">>

CachePaths == {getCacheFilePath(u) : u \in Urls}

CacheEntry(d, ts, u) == [data |-> d, timestamp |-> ts, url |-> u]

\* Bytes that are the beginning of one body and the end of another.
MixedData == NumData + 1

\* The bytes of a body are most of its entry's serialization: they take three
\* places of it, each holding a third of the body.
DataOf(a, b, c) == IF a = b /\ b = c THEN a ELSE MixedData

\* A serialization that leaves the timestamp at the zero time.
MarshalEntryNoTime(e) ==
    <<Tok("{", 0), Tok("data", e.data), Tok("data", e.data), Tok("data", e.data),
      Tok("timestamp", 0), Tok("url", e.url), Tok("}", 0)>>

\* json.Marshal(entry)
MarshalEntry(e) ==
    <<Tok("{", 0), Tok("data", e.data), Tok("data", e.data), Tok("data", e.data),
      Tok("timestamp", e.timestamp), Tok("url", e.url), Tok("}", 0)>>

\* The tokens are those of one serialized entry, in their places.
WellFormedEntry(s) ==
    /\ Len(s) = Len(MarshalEntry(CacheEntry(NoData, 0, 0)))
    /\ \A i \in 1..Len(s) : s[i][1] = MarshalEntry(CacheEntry(NoData, 0, 0))[i][1]

\* A decoder that gives the zero entry for input it cannot parse.
UnmarshalEntryLenient(s) ==
    IF WellFormedEntry(s)
    THEN CacheEntry(DataOf(s[2][2], s[3][2], s[4][2]), s[5][2], s[6][2])
    ELSE CacheEntry(NoData, 0, 0)

\* json.Unmarshal(data, &entry)
UnmarshalEntry(s) ==
    IF WellFormedEntry(s)
    THEN CacheEntry(DataOf(s[2][2], s[3][2], s[4][2]), s[5][2], s[6][2])
    ELSE ParseError

\* A file of the cache directory: its content, and whether the process may
\* open it. A file it may not open is one another user created under a umask
\* that withholds the permissions of others, reading and writing alike.
CacheFile(c, r) == [content |-> c, readable |-> r]

\* What an earlier run may have left at one cache path: nothing, an entry, an
\* entry the process may not read, or the beginning of an entry.
InitCacheFiles(u) ==
    { CacheFile(NoFile, TRUE),
      CacheFile(MarshalEntry(CacheEntry(1, 0, u)), TRUE),
      CacheFile(MarshalEntry(CacheEntry(1, 0, u)), FALSE),
      CacheFile(SubSeq(MarshalEntry(CacheEntry(1, 0, u)), 1, 2), TRUE) }

\* One process whose store is constructed, over a cache directory that is
\* there, as the locator leaves it.
InitCache ==
    /\ saveImpl \in {"rename", "inplace"}
    /\ isSystemWide = FALSE
    /\ file = NoFile /\ fileMode = NoMode
    /\ tmp = NoFile /\ tmpMode = NoMode
    /\ status = [p \in Procs |-> IF p = 1 THEN ReadStatus(EmptyMap, 0) ELSE NoStore]
    /\ mutex = [p \in Procs |-> [writer |-> 0, readers |-> {}]]
    /\ pc = [t \in Threads |-> "idle"]
    /\ op = [t \in Threads |-> NoOp]
    /\ buf = [t \in Threads |-> <<>>]
    /\ fd = [t \in Threads |-> "none"]
    /\ ret = [t \in Threads |-> NoRet]
    /\ before = [t \in Threads |-> NoSave]
    /\ ops = 0
    /\ now = 0
    /\ procOf = [t \in Threads |-> 1]
    /\ pstate = [p \in Procs |-> IF p = 1 THEN "up" ELSE "off"]
    /\ isRoot = [p \in Procs |-> FALSE]
    /\ NotLocating
    /\ cache \in {c \in [CachePaths -> UNION {InitCacheFiles(u) : u \in Urls}] :
                    \A x \in CachePaths :
                        \E u \in Urls : getCacheFilePath(u) = x /\ c[x] \in InitCacheFiles(u)}
    /\ cres = NoCres
    /\ clog = <<>>
    /\ NoCheck

\* What the cache operations leave alone.
outsideCache ==
    <<saveImpl, isSystemWide, file, fileMode, tmp, tmpMode, procOf, pstate, isRoot,
      status, mutex, pc, op, buf, fd, ret, before, locVars, checkVars>>

\* An age test that lets an entry expire once its age reaches maxAge.
GetCacheFileResultStrict(f, at, maxAge) ==
    IF f.content = NoFile \/ ~f.readable
    THEN [data |-> NoData, found |-> FALSE]
    ELSE IF UnmarshalEntry(f.content) = ParseError
    THEN [data |-> NoData, found |-> FALSE]
    ELSE IF at - UnmarshalEntry(f.content).timestamp >= maxAge
    THEN [data |-> NoData, found |-> FALSE]
    ELSE [data |-> UnmarshalEntry(f.content).data, found |-> TRUE]

\* os.ReadFile(cacheFile), json.Unmarshal and the age test of GetCacheFile, at
\* clock reading at: the data and found it returns.
GetCacheFileResult(f, at, maxAge) ==
    IF f.content = NoFile \/ ~f.readable
    THEN [data |-> NoData, found |-> FALSE]
    ELSE IF UnmarshalEntry(f.content) = ParseError
    THEN [data |-> NoData, found |-> FALSE]
    ELSE IF at - UnmarshalEntry(f.content).timestamp > maxAge
    THEN [data |-> NoData, found |-> FALSE]
    ELSE [data |-> UnmarshalEntry(f.content).data, found |-> TRUE]

\* A lookup that removes the file of an entry it does not return.
CacheAfterGetEvicts(c, u, r) ==
    IF r.found THEN c ELSE [c EXCEPT ![getCacheFilePath(u)] = CacheFile(NoFile, TRUE)]

\* The cache directory after GetCacheFile(u, ...) returned r: os.ReadFile is
\* all that touches it.
CacheAfterGet(c, u, r) == c

GetCacheFile(p) ==
    /\ pstate[p] = "up"
    /\ ops < MaxCacheOps
    /\ \E u \in Urls, maxAge \in 0..MaxAge, at \in NowValues :
        /\ now' = at
        /\ cres' = [op |-> "get", url |-> u, maxAge |-> maxAge, at |-> at,
                    err |-> "nil",
                    ret |-> GetCacheFileResult(cache[getCacheFilePath(u)], at, maxAge)]
    /\ clog' = Append(clog, cres')
    /\ ops' = ops + 1
    /\ cache' = CacheAfterGet(cache, cres'.url, cres'.ret)
    /\ UNCHANGED outsideCache

ErrWriteCache == "failed to write cache file"

\* What SetCacheFile(u, d) at clock reading at can make of cache directory c,
\* and the error it returns: the entry is marshalled and written in place by
\* os.WriteFile, which may fail to open the file, stop part way, or fail on
\* close.
SetCacheFileOutcomes(c, u, d, at) ==
    LET path == getCacheFilePath(u)
        jsonData == MarshalEntry(CacheEntry(d, at, u))
    IN  {[cache |-> c, err |-> ErrWriteCache]}
        \cup (IF c[path].readable
              THEN {[cache |-> [c EXCEPT ![path] = CacheFile(jsonData, TRUE)],
                     err |-> "nil"]}
                   \cup {[cache |-> [c EXCEPT ![path] =
                                        CacheFile(SubSeq(jsonData, 1, k), TRUE)],
                          err |-> ErrWriteCache] : k \in WriteLens(jsonData)}
              ELSE {})

SetCacheFile(p) ==
    /\ pstate[p] = "up"
    /\ ops < MaxCacheOps
    /\ \E u \in Urls, d \in Bodies, at \in NowValues :
        \E o \in SetCacheFileOutcomes(cache, u, d, at) :
            /\ now' = at
            /\ cache' = o.cache
            /\ cres' = [op |-> "set", url |-> u, data |-> d, at |-> at, err |-> o.err]
    /\ clog' = Append(clog, cres')
    /\ ops' = ops + 1
    /\ UNCHANGED outsideCache

NextCache ==
    \/ \E p \in Procs : GetCacheFile(p)
    \/ \E p \in Procs : SetCacheFile(p)

SpecCache == InitCache /\ [][NextCache]_vars

(* ----------------------- concurrent cache writers ---------------------- *)

\* SetCacheFile up to the opening of the cache file by os.WriteFile:
\* OpenFile(name, O_WRONLY|O_CREATE|O_TRUNC, 0666) empties the file, or fails.
SetCacheFileOpen(t) ==
    /\ pc[t] = "idle"
    /\ pstate[procOf[t]] = "up"
    /\ ops < MaxOps
    /\ \E u \in Urls, d \in Bodies, at \in NowValues :
        LET path == getCacheFilePath(u)
            call == [op |-> "call", url |-> u, data |-> d, at |-> at]
        IN  /\ now' = at
            /\ \/ /\ cache[path].readable
                  /\ cache' = [cache EXCEPT ![path] = CacheFile(<<>>, TRUE)]
                  /\ buf' = [buf EXCEPT ![t] = MarshalEntry(CacheEntry(d, at, u))]
                  /\ pc' = [pc EXCEPT ![t] = "cwrite"]
                  /\ clog' = Append(clog, call)
                  /\ UNCHANGED cres
               \/ /\ cres' = [op |-> "set", url |-> u, data |-> d, at |-> at,
                              err |-> ErrWriteCache]
                  /\ clog' = clog \o <<call, cres'>>
                  /\ UNCHANGED <<cache, buf, pc>>
    /\ ops' = ops + 1
    /\ UNCHANGED <<saveImpl, isSystemWide, file, fileMode, tmp, tmpMode, procOf, pstate,
                   isRoot, status, mutex, op, fd, ret, before, locVars, checkVars>>

\* The rest of os.WriteFile in SetCacheFile: f.Write(data), which may stop part
\* way with an error, and f.Close().
SetCacheFileWrite(t) ==
    /\ pc[t] = "cwrite"
    /\ LET e == UnmarshalEntry(buf[t])
           path == getCacheFilePath(e.url)
       IN  \E k \in WriteLens(buf[t]) :
              /\ cache' = [cache EXCEPT ![path].content =
                               WriteAt0(@, SubSeq(buf[t], 1, k))]
              /\ cres' = [op |-> "set", url |-> e.url, data |-> e.data,
                          at |-> e.timestamp,
                          err |-> IF k = Len(buf[t]) THEN "nil" ELSE ErrWriteCache]
    /\ clog' = Append(clog, cres')
    /\ pc' = [pc EXCEPT ![t] = "idle"]
    /\ buf' = [buf EXCEPT ![t] = <<>>]
    /\ UNCHANGED <<saveImpl, isSystemWide, now, file, fileMode, tmp, tmpMode, procOf,
                   pstate, isRoot, status, mutex, op, fd, ret, before, ops, locVars,
                   checkVars>>

NextCacheRace ==
    \/ \E t \in Threads : SetCacheFileOpen(t)
    \/ \E t \in Threads : SetCacheFileWrite(t)
    \/ \E p \in Procs : GetCacheFile(p)

\* The cache directory as complete calls of SetCacheFile leave it: at each path
\* nothing or a whole entry.
InitCacheRace ==
    /\ InitCache
    /\ saveImpl = "inplace"
    /\ \A x \in CachePaths :
          cache[x].readable /\ (cache[x].content # NoFile => WellFormedEntry(cache[x].content))

\* Goroutines of one process calling the cache operations at once.
SpecCacheRace == InitCacheRace /\ [][NextCacheRace]_vars

(* ------------------------------ feed fetch ----------------------------- *)

\* 15*time.Minute, in the unit of the clock.
FeedMaxAge == 1

ErrFetch == "failed to fetch feed"

ErrHTTP == "HTTP error"

ErrParseFeed == "failed to parse Atom"

\* An error of resp.Body.Read other than io.EOF.
ErrReadBody == "unexpected EOF"

\* The bytes the read loop has appended when Read fails before the end of a
\* body sent: a body stands for its length, so these are the shorter bodies.
CutShort(sent) == {b \in Bodies : b < sent}

\* What http.Get and reading the response give: an error, a status other than
\* 200, or a body, which is nil when no bytes were read. The read loop ends on
\* io.EOF with the body sent, or on another error with part of it.
Responses ==
    {[err |-> ErrFetch, body |-> NoData, sent |-> NoData, readErr |-> "none"],
     [err |-> ErrHTTP, body |-> NoData, sent |-> NoData, readErr |-> "none"]}
    \cup {[err |-> "nil", body |-> b, sent |-> b, readErr |-> "EOF"] : b \in Bodies}
    \cup UNION {{[err |-> "nil", body |-> b, sent |-> s, readErr |-> ErrReadBody] :
                    b \in CutShort(s)} : s \in Bodies}

\* parseRSS / parseAtom: the items of a body, which stands for them; no bytes
\* are no XML document.
parseItems(body) ==
    IF body = NoData THEN [items |-> <<>>, err |-> ErrParseFeed]
    ELSE [items |-> <<body>>, err |-> "nil"]

\* A fetch that gives up when the cache cannot be written.
FetchReturnsFailing(body, setErr) ==
    IF setErr = "nil" THEN parseItems(body)
    ELSE [items |-> <<>>, err |-> setErr]

\* What ParseFeedWithStorage returns for a fetched body once SetCacheFile
\* returned setErr: the error is printed and otherwise ignored.
FetchReturns(body, setErr) == parseItems(body)

\* The record of one call of ParseFeedWithStorage(u, storage): what it
\* returned, and the cache directory and the clock it left.
FetchEnd(u, r, c, at, events) ==
    /\ cres' = [op |-> "fetch", url |-> u, ret |-> r]
    /\ cache' = c
    /\ now' = at
    /\ clog' = clog \o events

\* ParseFeedWithStorage(u, storage), storage being nil when withStorage is
\* false (ParseFeed).
ParseFeedWithStorage(p) ==
    /\ pstate[p] = "up"
    /\ ops < MaxOps
    /\ \E u \in Urls, withStorage \in BOOLEAN, at \in NowValues :
        LET got == IF withStorage
                   THEN GetCacheFileResult(cache[getCacheFilePath(u)], at, FeedMaxAge)
                   ELSE [data |-> NoData, found |-> FALSE]
            getEv == IF withStorage
                     THEN <<[op |-> "get", url |-> u, maxAge |-> FeedMaxAge, at |-> at,
                             err |-> "nil", ret |-> got]>>
                     ELSE <<>>
            cached == IF got.found THEN got.data ELSE NoData
        IN  IF cached # NoData
            THEN FetchEnd(u, parseItems(cached), cache, at, getEv)
            ELSE \E resp \in Responses :
                    LET httpEv == <<[op |-> "http", url |-> u, err |-> resp.err,
                                     body |-> resp.body, sent |-> resp.sent,
                                     readErr |-> resp.readErr]>>
                    IN  IF resp.err # "nil"
                        THEN FetchEnd(u, [items |-> <<>>, err |-> resp.err], cache, at,
                                      getEv \o httpEv)
                        ELSE IF ~withStorage
                        THEN FetchEnd(u, parseItems(resp.body), cache, at,
                                      getEv \o httpEv)
                        ELSE \E at2 \in {n \in Times : at <= n /\ n <= at + 1} :
                             \E o \in SetCacheFileOutcomes(cache, u, resp.body, at2) :
                                FetchEnd(u, FetchReturns(resp.body, o.err), o.cache, at2,
                                         getEv \o httpEv
                                         \o <<[op |-> "set", url |-> u, data |-> resp.body,
                                               at |-> at2, err |-> o.err]>>
                                         \o IF o.err = "nil" THEN <<>>
                                            ELSE <<[op |-> "warn", err |-> o.err]>>)
    /\ ops' = ops + 1
    /\ UNCHANGED outsideCache

NextFetch == \E p \in Procs : ParseFeedWithStorage(p)

SpecFetch == InitCache /\ [][NextFetch]_vars

(* ---------------------------- the check command ------------------------ *)

\* How many items the configured feeds hold together: few, or about as many
\* as an exit status has values.
FeedSizes == 0..3 \cup {MaxItems - 1, MaxItems}

\* What the configured feeds hold: n items with n identifiers, or one item
\* that two feeds carry.
Feeds ==
    {[n |-> n, twice |-> FALSE] : n \in FeedSizes} \cup {[n |-> 1, twice |-> TRUE]}

\* The identifiers of the items feed.ParseFeed returns, feed after feed.
FeedItemIds(f) ==
    IF f.twice THEN <<Id(1), Id(1)>> ELSE [k \in 1..f.n |-> Id(k)]

\* unreadItems: the items for which store.IsRead(item.ID) is false, in order.
UnreadItems(st, f) ==
    SelectSeq(FeedItemIds(f), LAMBDA id : ~IsReadValue(st, id))

\* A test that has the first of several unread items marked.
MarksItemOneOrMore(unreadCount) == unreadCount >= 1

\* if unreadCount == 1
MarksItem(unreadCount) == unreadCount = 1

\* os.Exit(n): the status the parent process gets is the low eight bits of n.
ExitStatus(n) == n % 256

ErrInitStorage == "failed to initialize storage"

\* The check command before it runs, over feeds f.
CheckStart(f) ==
    [pc |-> "start", feed |-> f, unreadCount |-> 0, item |-> <<>>, err |-> "nil",
     code |-> 0]

\* Runs of the check command, one after the other, over the same feeds; each
\* is a process of its own.
InitCheck ==
    /\ saveImpl \in {"rename", "inplace"}
    /\ isSystemWide \in BOOLEAN
    /\ \E f \in InitFiles : file = f[1] /\ fileMode = f[2]
    /\ tmp = NoFile
    /\ tmpMode = NoMode
    /\ status = [p \in Procs |-> NoStore]
    /\ mutex = [p \in Procs |-> [writer |-> 0, readers |-> {}]]
    /\ pc = [t \in Threads |-> "idle"]
    /\ op = [t \in Threads |-> NoOp]
    /\ buf = [t \in Threads |-> <<>>]
    /\ fd = [t \in Threads |-> "none"]
    /\ ret = [t \in Threads |-> NoRet]
    /\ before = [t \in Threads |-> NoSave]
    /\ ops = 0
    /\ now = 0
    /\ procOf = [t \in Threads |-> t]
    /\ pstate = [p \in Procs |-> "new"]
    /\ isRoot \in InitRoot
    /\ NotLocating
    /\ NoCache
    /\ chk \in {[p \in Procs |-> CheckStart(f)] : f \in Feeds}

\* The process ends with exit status code.
Exited(p, count, e, code) ==
    /\ chk' = [chk EXCEPT ![p] = [@ EXCEPT !.pc = "exited", !.unreadCount = count,
                                             !.err = e, !.code = code]]
    /\ pstate' = [pstate EXCEPT ![p] = "off"]

\* store, err := storage.New(), once the runs before this one have ended.
StartCheck(p) ==
    /\ chk[p].pc = "start"
    /\ \A q \in Procs : q < p => chk[q].pc = "exited"
    /\ NewWithConfirmation(p)

\* checkCmd.RunE from the loop over the feeds on: the unread items are
\* counted; one unread item is printed and store.MarkAsRead(item.ID) called;
\* otherwise the command prints the count, if above one, and exits with it.
\* Without a store it returns an error and main exits with 1.
checkCmd(p) ==
    /\ chk[p].pc = "start"
    /\ pc[p] = "idle"
    /\ pstate[p] \in {"up", "failed"}
    /\ IF pstate[p] = "failed"
       THEN /\ Exited(p, 0, ErrInitStorage, 1)
            /\ UNCHANGED <<out, op, mutex, pc, ops>>
       ELSE LET unreadItems == UnreadItems(status[p], chk[p].feed)
                unreadCount == Len(unreadItems)
            IN  IF MarksItem(unreadCount)
                THEN /\ out' = out \o <<<<"item", unreadItems[1]>>>>
                     /\ op' = [op EXCEPT ![p] = [kind |-> "MarkAsRead",
                                                 id |-> unreadItems[1], maxAge |-> 0]]
                     /\ mutex' = [mutex EXCEPT ![p].writer = p]
                     /\ pc' = [pc EXCEPT ![p] = "locked"]
                     /\ ops' = ops + 1
                     /\ chk' = [chk EXCEPT ![p] = [@ EXCEPT !.pc = "marking",
                                                            !.unreadCount = unreadCount,
                                                            !.item = unreadItems[1]]]
                     /\ UNCHANGED pstate
                ELSE /\ out' = IF unreadCount > 1
                               THEN out \o <<<<"count", unreadCount>>>> ELSE out
                     /\ Exited(p, unreadCount, "nil", ExitStatus(unreadCount))
                     /\ UNCHANGED <<op, mutex, pc, ops>>
    /\ UNCHANGED <<saveImpl, isSystemWide, now, file, fileMode, tmp, tmpMode, procOf,
                   isRoot, status, buf, fd, ret, before, cmd, loc, paths, stdin,
                   cacheVars>>

\* store.MarkAsRead has returned: its error is returned, and main exits with
\* 1, or the command exits with the count.
checkExit(p) ==
    /\ chk[p].pc = "marking"
    /\ pc[p] = "ret"
    /\ Exited(p, chk[p].unreadCount, ret[p].err,
              IF ret[p].err = "nil" THEN ExitStatus(chk[p].unreadCount) ELSE 1)
    /\ mutex' = [mutex EXCEPT ![p] = [writer |-> 0, readers |-> {}]]
    /\ pc' = [pc EXCEPT ![p] = "idle"]
    /\ op' = [op EXCEPT ![p] = NoOp]
    /\ ret' = [ret EXCEPT ![p] = NoRet]
    /\ buf' = [buf EXCEPT ![p] = <<>>]
    /\ before' = [before EXCEPT ![p] = NoSave]
    /\ UNCHANGED <<saveImpl, isSystemWide, now, file, fileMode, tmp, tmpMode, procOf,
                   isRoot, status, fd, ops, locVars, cacheVars>>

NextCheck ==
    \/ \E p \in Procs : StartCheck(p)
    \/ \E p \in Procs : checkCmd(p)
    \/ \E t \in Threads : MarkAsRead(t)
    \/ \E t \in Threads : save(t)
    \/ \E t \in Threads : WriteFileOpen(t)
    \/ \E t \in Threads : WriteFileWrite(t)
    \/ \E t \in Threads : Rename(t)
    \/ \E t \in Threads : Chmod(t)
    \/ \E p \in Procs : checkExit(p)

SpecCheck == InitCheck /\ [][NextCheck]_vars

(* ------------------------ the list and read commands ------------------ *)

\* allItems as the loop over the feeds leaves it: item k has identifier
\* Id(k) and one of the published times.
ListFeeds ==
    UNION {{[k \in 1..n |-> [id |-> Id(k), published |-> f[k]]] :
                f \in [1..n -> Times]} : n \in 0..MaxListItems}

\* The less function listCmd gives sort.Slice.
ListLess(a, b, reverse) ==
    IF reverse THEN a.published < b.published ELSE a.published > b.published

\* sort.Slice(allItems, less): some order of the items that less agrees with;
\* the sort is not stable, so items less does not tell apart end in any order.
SortSlice(items, reverse) ==
    {[k \in 1..Len(items) |-> items[perm[k]]] :
        perm \in {q \in Permutations(1..Len(items)) :
                    \A i, j \in 1..Len(items) :
                        i < j => ~ListLess(items[q[j]], items[q[i]], reverse)}}

\* readCmd's sort: for i, for j > i, the two items are exchanged when the
\* first was published before the second.
RECURSIVE ReadSort(_, _, _)
ReadSort(items, i, j) ==
    IF i >= Len(items) THEN items
    ELSE IF j > Len(items) THEN ReadSort(items, i + 1, i + 2)
    ELSE IF items[i].published < items[j].published
    THEN ReadSort([items EXCEPT ![i] = items[j], ![j] = items[i]], i, j + 1)
    ELSE ReadSort(items, i, j + 1)

ErrItemNotFound == "item not found"

\* A run of list or read before it starts, over the items the feeds hold.
ListStart(name, items, unread, reverse) ==
    [pc |-> "start", name |-> name, items |-> items, listUnread |-> unread,
     listReverse |-> reverse, shown |-> <<>>, index |-> 0, target |-> <<>>,
     err |-> "nil"]

\* Process 1 runs list, then process 2 runs read with an index list printed,
\* over the same feeds and the same status file.
InitListRead ==
    /\ saveImpl \in {"rename", "inplace"}
    /\ isSystemWide = FALSE
    /\ \E f \in InitFiles : file = f[1] /\ fileMode = f[2]
    /\ tmp = NoFile
    /\ tmpMode = NoMode
    /\ status = [p \in Procs |-> NoStore]
    /\ mutex = [p \in Procs |-> [writer |-> 0, readers |-> {}]]
    /\ pc = [t \in Threads |-> "idle"]
    /\ op = [t \in Threads |-> NoOp]
    /\ buf = [t \in Threads |-> <<>>]
    /\ fd = [t \in Threads |-> "none"]
    /\ ret = [t \in Threads |-> NoRet]
    /\ before = [t \in Threads |-> NoSave]
    /\ ops = 0
    /\ now = 0
    /\ procOf = [t \in Threads |-> t]
    /\ pstate = [p \in Procs |-> IF p <= 2 THEN "new" ELSE "off"]
    /\ isRoot = [p \in Procs |-> FALSE]
    /\ NotLocating
    /\ NoCache
    /\ \E items \in ListFeeds, unread \in BOOLEAN, reverse \in BOOLEAN :
          chk = [p \in Procs |->
                    IF p = 1 THEN ListStart("list", items, unread, reverse)
                    ELSE IF p = 2 THEN ListStart("read", items, FALSE, FALSE)
                    ELSE NotChecking]

\* store, err := storage.NewWithConfirmation(...) of list, and of read once
\* list has ended.
StartListRead(p) ==
    /\ chk[p].pc = "start"
    /\ \A q \in Procs : q < p => chk[q].pc = "exited"
    /\ NewWithConfirmation(p)

\* listCmd.RunE from the sort on: the items are sorted, the read ones left
\* out under --unread, and the rest printed with the indices 1, 2, ...
listCmd(p) ==
    /\ chk[p].pc = "start"
    /\ chk[p].name = "list"
    /\ pstate[p] = "up"
    /\ \E allItems \in SortSlice(chk[p].items, chk[p].listReverse) :
        LET itemsToShow ==
                SelectSeq(allItems,
                          LAMBDA item : ~(chk[p].listUnread
                                          /\ IsReadValue(status[p], item.id)))
        IN  /\ chk' = [chk EXCEPT ![p] = [@ EXCEPT !.pc = "exited",
                                                   !.shown = itemsToShow]]
            /\ out' = out \o [i \in 1..Len(itemsToShow) |->
                                 <<"line", i, itemsToShow[i].id>>]
    /\ pstate' = [pstate EXCEPT ![p] = "off"]
    /\ UNCHANGED <<saveImpl, isSystemWide, now, file, fileMode, tmp, tmpMode, procOf,
                   isRoot, status, mutex, pc, op, buf, fd, ret, before, ops, cmd, loc,
                   paths, stdin, cacheVars>>

\* readCmd.RunE from the sort on, with one argument that is an index list
\* printed: readSpecificItem displays allItems[index-1] and calls
\* store.MarkAsRead on it.
readCmd(p) ==
    /\ chk[p].pc = "start"
    /\ chk[p].name = "read"
    /\ pstate[p] = "up"
    /\ pc[p] = "idle"
    /\ \E index \in 1..Len(chk[1].shown) :
        LET allItems == ReadSort(chk[p].items, 1, 2)
        IN  IF index >= 1 /\ index <= Len(allItems)
            THEN /\ out' = out \o <<<<"item", allItems[index].id>>>>
                 /\ op' = [op EXCEPT ![p] = [kind |-> "MarkAsRead",
                                             id |-> allItems[index].id, maxAge |-> 0]]
                 /\ mutex' = [mutex EXCEPT ![p].writer = p]
                 /\ pc' = [pc EXCEPT ![p] = "locked"]
                 /\ ops' = ops + 1
                 /\ chk' = [chk EXCEPT ![p] = [@ EXCEPT !.pc = "marking",
                                                        !.index = index,
                                                        !.target = allItems[index].id]]
                 /\ UNCHANGED pstate
            ELSE /\ chk' = [chk EXCEPT ![p] = [@ EXCEPT !.pc = "exited",
                                                        !.index = index,
                                                        !.err = ErrItemNotFound]]
                 /\ pstate' = [pstate EXCEPT ![p] = "off"]
                 /\ UNCHANGED <<out, op, mutex, pc, ops>>
    /\ UNCHANGED <<saveImpl, isSystemWide, now, file, fileMode, tmp, tmpMode, procOf,
                   isRoot, status, buf, fd, ret, before, cmd, loc, paths, stdin,
                   cacheVars>>

\* store.MarkAsRead has returned: readSpecificItem returns its error.
readExit(p) ==
    /\ chk[p].pc = "marking"
    /\ chk[p].name = "read"
    /\ pc[p] = "ret"
    /\ chk' = [chk EXCEPT ![p] = [@ EXCEPT !.pc = "exited", !.err = ret[p].err]]
    /\ pstate' = [pstate EXCEPT ![p] = "off"]
    /\ mutex' = [mutex EXCEPT ![p] = [writer |-> 0, readers |-> {}]]
    /\ pc' = [pc EXCEPT ![p] = "idle"]
    /\ op' = [op EXCEPT ![p] = NoOp]
    /\ ret' = [ret EXCEPT ![p] = NoRet]
    /\ buf' = [buf EXCEPT ![p] = <<>>]
    /\ before' = [before EXCEPT ![p] = NoSave]
    /\ UNCHANGED <<saveImpl, isSystemWide, now, file, fileMode, tmp, tmpMode, procOf,
                   isRoot, status, fd, ops, locVars, cacheVars>>

NextListRead ==
    \/ \E p \in Procs : StartListRead(p)
    \/ \E p \in Procs : listCmd(p)
    \/ \E p \in Procs : readCmd(p)
    \/ \E t \in Threads : MarkAsRead(t)
    \/ \E t \in Threads : save(t)
    \/ \E t \in Threads : WriteFileOpen(t)
    \/ \E t \in Threads : WriteFileWrite(t)
    \/ \E t \in Threads : Rename(t)
    \/ \E t \in Threads : Chmod(t)
    \/ \E p \in Procs : readExit(p)

SpecListRead == InitListRead /\ [][NextListRead]_vars

(* ------------------------------- claims -------------------------------- *)

\* A load of the status file as it is now succeeds (a missing file is no error).
LoadSucceeds == load(now) # ParseError

\* Errors save returns before the new record is in place.
ErrsBeforeReplace == {ErrWriteTmp, ErrRename, ErrWrite}

\* C1: a save interrupted after it began and before the new record is in place,
\* by a crash of the process or by a failing write or rename, leaves the status
\* file with the complete content it had when the save began, and a load of
\* that file succeeds.
C1_InterruptedSaveKeepsFile ==
    \A t \in Threads :
        (\/ pc[t] = "crashed" /\ before[t] # NoSave
         \/ pc[t] = "ret" /\ ret[t].err \in ErrsBeforeReplace)
        => file = before[t] /\ LoadSucceeds

\* The file holds one complete serialized record.
CompleteRecord(f) ==
    /\ Unmarshal(f) # ParseError
    /\ MarshalIndent(Unmarshal(f)) = f

\* C2: whatever saves of the processes sharing the status file are under way,
\* a read of the file obtains a complete serialized record, never an empty,
\* truncated or mixed one: the file always holds a complete record, and no
\* process's load ever fails to parse what it read.
C2_ReadsSeeCompleteRecord ==
    /\ file # NoFile => CompleteRecord(file)
    /\ \A p \in Procs : pstate[p] # "failed"

\* Threads t and u, of two processes that loaded the same record, have each
\* called MarkAsRead for an item the other's record does not hold; both saves
\* are over (neither call has yet handed its result to its caller) and at least
\* one returned nil.
BothMarked(t, u) ==
    /\ procOf[t] # procOf[u]
    /\ pc[t] = "ret" /\ pc[u] = "ret"
    /\ op[t].kind = "MarkAsRead" /\ op[u].kind = "MarkAsRead"
    /\ op[t].id \notin DOMAIN status[procOf[u]].readItems
    /\ op[u].id \notin DOMAIN status[procOf[t]].readItems
    /\ ret[t].err = "nil" \/ ret[u].err = "nil"

\* C3: when two processes each construct a store from the same status file and
\* each mark a different item read, the file ends equal to the whole record of
\* one of them (the one that saved last), never something else.
C3_LastWriterWins ==
    \A t \in Threads, u \in Threads :
        BothMarked(t, u)
        => file \in {MarshalIndent(status[procOf[t]]),
                     MarshalIndent(status[procOf[u]])}

\* Thread t holds the lock in a mutation: from the lock being taken, through the
\* in-memory change and the whole of save, until the deferred unlock.
InMutation(t) ==
    /\ pc[t] \in {"locked", "save", "open", "write", "rename", "chmod", "ret"}
    /\ ~IsQuery(op[t])

\* Thread t holds the read lock in a query.
InQuery(t) == pc[t] \in {"locked", "ret"} /\ IsQuery(op[t])

\* C4: within one process, while a MarkAsRead, MarkAsUnread or Cleanup is between
\* its in-memory change and the end of its save, no other mutation and no query
\* is executing on the record of that process.
C4_MutationsExclusive ==
    \A t \in Threads, u \in Threads :
        (t # u /\ procOf[t] = procOf[u] /\ InMutation(t))
        => ~InMutation(u) /\ ~InQuery(u)

\* C4, witness: a mutation is in the middle of its save while the other thread
\* of the process, which may still call an operation, is kept out.
C4_Witness ==
    \E t \in Threads, u \in Threads :
        /\ t # u /\ procOf[t] = procOf[u]
        /\ pc[t] = "write" /\ InMutation(t)
        /\ pc[u] = "idle" /\ ops < MaxOps

\* Queries do overlap with queries: two threads of a process hold the read lock.
QueriesOverlap ==
    \E t \in Threads, u \in Threads :
        t # u /\ procOf[t] = procOf[u] /\ InQuery(t) /\ InQuery(u)

\* The mutation of thread t has returned nil and has not yet unlocked.
Succeeded(t) == pc[t] = "ret" /\ ~IsQuery(op[t]) /\ ret[t].err = "nil"

\* The read_items the status file holds are those of process p's record.
FileHolds(p) ==
    /\ file # NoFile
    /\ Unmarshal(file) # ParseError
    /\ Unmarshal(file).readItems = status[p].readItems

\* C5: in one process, after a MarkAsRead, MarkAsUnread or Cleanup that returns
\* nil, the read_items stored in the status file equal the in-memory readItems.
C5_WriteThrough ==
    \A t \in Threads : Succeeded(t) => FileHolds(procOf[t])

\* C5, witness: a MarkAsRead of an item the record did not hold returned nil
\* and the file holds the changed readItems.
C5_Witness ==
    \E t \in Threads :
        /\ Succeeded(t) /\ op[t].kind = "MarkAsRead"
        /\ before[t] # NoFile /\ Unmarshal(before[t]) # ParseError
        /\ op[t].id \notin DOMAIN Unmarshal(before[t]).readItems
        /\ FileHolds(procOf[t])

\* Process q is constructed by this step, from the status file as process p
\* left it: a mutation of p has returned nil, and p alone ever wrote the file.
FreshAfter(p, q) ==
    /\ p # q
    /\ \E t \in Threads : procOf[t] = p /\ Succeeded(t)
    /\ \A r \in Procs \ {p} : pstate[r] = "new"
    /\ pstate'[q] # "new"

\* C6: a fresh store constructed from the status file after a store's
\* successful saves gives the same IsRead result as that store for every id.
C6_RoundTrip ==
    [][\A p \in Procs, q \in Procs :
          FreshAfter(p, q)
          => /\ pstate'[q] = "up"
             /\ \A id \in Ids \cup DOMAIN status[p].readItems :
                   IsReadValue(status'[q], id) = IsReadValue(status[p], id)]_vars

\* C6, witness: the fresh store holds, with its read time, the item the other
\* store marked read at that time; only a load after that save can have it.
C6_Witness ==
    \E t \in Threads, q \in Procs :
        /\ procOf[t] # q /\ pstate[q] = "up"
        /\ Succeeded(t) /\ op[t].kind = "MarkAsRead"
        /\ op[t].id = Id(NumIds)
        /\ IsReadValue(status[q], op[t].id)
        /\ status[q].readItems = status[procOf[t]].readItems
        /\ \A u \in Threads : procOf[u] = q => pc[u] = "idle"
        /\ ops = 1

\* The readItems of process p in the state before and after a step.
Items(p) == status[p].readItems

ItemsAfter(p) == status'[p].readItems

\* Thread t takes the step that applies operation kind to its store's record.
Applies(t, kind) ==
    pc[t] = "locked" /\ op[t].kind = kind /\ pc'[t] \in {"ret", "save"}

\* A step of a live process p changes whether id is a key of readItems only
\* as MarkAsRead(id), MarkAsUnread(id) or Cleanup.
MembershipChangeAllowed(p, id) ==
    \E t \in Threads :
        /\ procOf[t] = p
        /\ \/ Applies(t, "MarkAsRead") /\ op[t].id = id
           \/ Applies(t, "MarkAsUnread") /\ op[t].id = id
           \/ Applies(t, "Cleanup") /\ id \notin DOMAIN ItemsAfter(p)

\* C7: IsRead(id) answers true exactly when id is a key of readItems, never
\* fails and changes neither the record nor the file; MarkAsRead(id) makes id a
\* key and MarkAsUnread(id) makes it none; and no operation on another id
\* changes whether id is a key.
C7_IsReadIsMembership ==
    [][/\ \A t \in Threads :
            /\ Applies(t, "IsRead")
               => /\ pc'[t] = "ret"
                  /\ ret'[t].err = "nil"
                  /\ ret'[t].found = (op[t].id \in DOMAIN Items(procOf[t]))
                  /\ status' = status /\ file' = file
            /\ Applies(t, "MarkAsRead") => op[t].id \in DOMAIN ItemsAfter(procOf[t])
            /\ Applies(t, "MarkAsUnread")
               => op[t].id \notin DOMAIN ItemsAfter(procOf[t])
       /\ \A p \in Procs :
            (pstate[p] = "up" /\ pstate'[p] = "up")
            => \A id \in Ids \cup DOMAIN Items(p) \cup DOMAIN ItemsAfter(p) :
                  (id \in DOMAIN Items(p)) # (id \in DOMAIN ItemsAfter(p))
                  => MembershipChangeAllowed(p, id)]_vars

\* C7, witness: IsRead has answered true for one item while the record holds
\* that item and not another one.
C7_Witness ==
    \E t \in Threads :
        /\ pc[t] = "ret" /\ op[t].kind = "IsRead"
        /\ ret[t].found /\ ret[t].err = "nil"
        /\ op[t].id \in DOMAIN Items(procOf[t])
        /\ DOMAIN Items(procOf[t]) # Ids

\* The mutation of thread t has returned an error and has not yet unlocked.
Failed(t) == pc[t] = "ret" /\ ~IsQuery(op[t]) /\ ret[t].err # "nil"

\* The record a load of file content f gives.
RecordOf(f) == IF f = NoFile THEN ReadStatus(EmptyMap, 0) ELSE Unmarshal(f)

\* When the save of thread t began, the file's read_items were not the
\* in-memory readItems: there is a change for the file to reflect or not.
MadeChange(t) ==
    /\ RecordOf(before[t]) # ParseError
    /\ RecordOf(before[t]).readItems # Items(procOf[t])

\* The in-memory effect of thread t's operation is still there.
ChangeKept(t) ==
    /\ op[t].kind = "MarkAsRead" => op[t].id \in DOMAIN Items(procOf[t])
    /\ op[t].kind = "MarkAsUnread" => op[t].id \notin DOMAIN Items(procOf[t])

\* Thread t is inside save.
InSave(t) == pc[t] \in {"save", "open", "write", "rename", "chmod"}

\* Errors save returns once the whole record may be in the status file.
ErrsAfterWrite == {ErrChmod, ErrWrite}

\* C8 as stated: when the save inside MarkAsRead, MarkAsUnread or Cleanup
\* fails, the in-memory change is kept and the status file does not reflect it.
C8_FileLacksChange ==
    \A t \in Threads :
        (Failed(t) /\ MadeChange(t))
        => ChangeKept(t) /\ ~FileHolds(procOf[t])

\* C8: when the save inside MarkAsRead, MarkAsUnread or Cleanup fails, the
\* operation returns the error and the in-memory change is kept: no step of save
\* alters readItems.  The status file reflects the change only when the error
\* came after the whole record was written (the final chmod, or the close of the
\* file written in place); otherwise memory and file differ.
C8_SaveFailureKeepsChange ==
    /\ [](\A t \in Threads :
             Failed(t)
             => /\ ChangeKept(t)
                /\ (MadeChange(t) /\ FileHolds(procOf[t]))
                   => ret[t].err \in ErrsAfterWrite)
    /\ [][\A t \in Threads :
             (InSave(t) /\ pc'[t] # "crashed")
             => ItemsAfter(procOf[t]) = Items(procOf[t])]_vars

\* C8, witness: a MarkAsRead returned an error, the record holds the item and
\* the status file is as it was before the save.
C8_Witness ==
    \E t \in Threads :
        /\ Failed(t) /\ MadeChange(t) /\ op[t].kind = "MarkAsRead"
        /\ op[t].id \in DOMAIN Items(procOf[t])
        /\ file = before[t] /\ ~FileHolds(procOf[t])

\* Errors a mutation can return: those of save.
SaveErrors == {ErrWriteTmp, ErrRename, ErrWrite, ErrChmod}

\* C9: MarkAsRead of an id that is already a key (as after a first MarkAsRead
\* of it) goes on to save without an error of its own, leaves the set of keys
\* and the other read times as they were, and sets the id's read time to the
\* time of this call; the only errors it returns are save's.
C9_MarkAsReadIdempotent ==
    [][\A t \in Threads :
          /\ (Applies(t, "MarkAsRead") /\ op[t].id \in DOMAIN Items(procOf[t]))
             => /\ pc'[t] = "save"
                /\ DOMAIN ItemsAfter(procOf[t]) = DOMAIN Items(procOf[t])
                /\ ItemsAfter(procOf[t])[op[t].id] = now'
                /\ now' >= now
                /\ \A k \in DOMAIN Items(procOf[t]) \ {op[t].id} :
                      ItemsAfter(procOf[t])[k] = Items(procOf[t])[k]
          /\ (op[t].kind = "MarkAsRead" /\ pc[t] # "ret" /\ pc'[t] = "ret")
             => ret'[t].err \in {"nil"} \cup SaveErrors]_vars

\* C9, witness: a first MarkAsRead put the item in the file with read time 0,
\* and a second one has set its read time to 1.
C9_Witness ==
    \E t \in Threads :
        /\ pc[t] = "save" /\ op[t].kind = "MarkAsRead" /\ op[t].id = Id(NumIds)
        /\ ops = 2
        /\ FileHolds(procOf[t]) = FALSE
        /\ RecordOf(file) # ParseError
        /\ op[t].id \in DOMAIN RecordOf(file).readItems
        /\ RecordOf(file).readItems[op[t].id] = 0
        /\ Items(procOf[t])[op[t].id] = 1

\* C10: MarkAsUnread of an id that is no key leaves readItems as it was and
\* goes on to save without an error of its own; of an id that is a key, it
\* removes that key and nothing else; the only errors it returns are save's.
C10_MarkAsUnreadAbsent ==
    [][\A t \in Threads :
          /\ Applies(t, "MarkAsUnread")
             => /\ pc'[t] = "save"
                /\ op[t].id \notin DOMAIN Items(procOf[t])
                   => ItemsAfter(procOf[t]) = Items(procOf[t])
                /\ op[t].id \in DOMAIN Items(procOf[t])
                   => /\ DOMAIN ItemsAfter(procOf[t])
                         = DOMAIN Items(procOf[t]) \ {op[t].id}
                      /\ \A k \in DOMAIN ItemsAfter(procOf[t]) :
                            ItemsAfter(procOf[t])[k] = Items(procOf[t])[k]
          /\ (op[t].kind = "MarkAsUnread" /\ pc[t] # "ret" /\ pc'[t] = "ret")
             => ret'[t].err \in {"nil"} \cup SaveErrors]_vars

\* C10, witness: the first operation ever called, a MarkAsUnread of an item
\* the record never held, returned nil and the record still holds its item.
C10_Witness ==
    \E t \in Threads :
        /\ Succeeded(t) /\ op[t].kind = "MarkAsUnread" /\ op[t].id = Id(NumIds)
        /\ ops = 1
        /\ Items(procOf[t]) # EmptyMap
        /\ FileHolds(procOf[t])

\* C11: Cleanup(maxAge) called at time now removes exactly the entries whose
\* read time is older than now - maxAge and keeps every other entry with its
\* read time; an entry read exactly at now - maxAge is kept.
C11_CleanupBoundary ==
    [][\A t \in Threads :
          Applies(t, "Cleanup")
          => /\ DOMAIN ItemsAfter(procOf[t])
                = {k \in DOMAIN Items(procOf[t]) :
                      Items(procOf[t])[k] >= now' - op[t].maxAge}
             /\ \A k \in DOMAIN ItemsAfter(procOf[t]) :
                   ItemsAfter(procOf[t])[k] = Items(procOf[t])[k]]_vars

\* C11, witness: a Cleanup has just removed an older entry, which the file
\* still holds, and kept one read exactly at now - maxAge.
C11_Witness ==
    \E t \in Threads :
        /\ pc[t] = "save" /\ op[t].kind = "Cleanup"
        /\ RecordOf(file) # ParseError
        /\ \E k \in DOMAIN Items(procOf[t]) :
              Items(procOf[t])[k] = now - op[t].maxAge
        /\ \E j \in DOMAIN RecordOf(file).readItems :
              /\ j \notin DOMAIN Items(procOf[t])
              /\ RecordOf(file).readItems[j] < now - op[t].maxAge

\* C12: MarkAsRead, MarkAsUnread and Cleanup each make exactly one save
\* attempt, after the in-memory change is complete and whatever its outcome:
\* a call that returns has begun a save, a save begins only from the end of the
\* in-memory change, nothing is changed in memory once it began, and a call
\* that has returned does nothing more than unlock.
C12_SingleSave ==
    /\ [](\A t \in Threads :
             (pc[t] = "ret" /\ ~IsQuery(op[t])) => before[t] # NoSave)
    /\ [][\A t \in Threads :
             /\ (pc'[t] = "save" /\ pc[t] # "save") => pc[t] = "locked"
             /\ (pc'[t] = "open" /\ pc[t] # "open") => pc[t] = "save"
             /\ (InSave(t) /\ pc'[t] # "crashed")
                => /\ ItemsAfter(procOf[t]) = Items(procOf[t])
                   /\ pc'[t] \in {"save", "open", "write", "rename", "chmod", "ret"}
             /\ pc[t] = "ret" => pc'[t] \in {"ret", "idle", "crashed"}]_vars

\* C12, witness: a Cleanup that removed an entry has returned nil after its
\* one save, and the file holds what was left.
C12_Witness ==
    \E t \in Threads :
        /\ Succeeded(t) /\ op[t].kind = "Cleanup"
        /\ MadeChange(t)
        /\ DOMAIN Items(procOf[t]) # DOMAIN RecordOf(before[t]).readItems
        /\ FileHolds(procOf[t])

\* Every record over the item identifiers and times of the model.
AllRecords ==
    {ReadStatus(m, lc) :
        m \in UNION {[S -> Times] : S \in SUBSET Ids}, lc \in Times}

\* The records whose serialization the file content f is; none when f is
\* corrupt.
FileRecords(f) == {r \in AllRecords : MarshalIndent(r) = f}

\* This step is the construction of process p's store, or its failure.
Constructs(p) == pstate[p] = "new" /\ pstate'[p] # "new"

\* C13: construction over a missing status file succeeds with an empty
\* readItems (IsRead false for every id); over a file that is not a serialized
\* record it fails and the process holds no store; over the serialization of a
\* record it succeeds with that record's read_items.
C13_ConstructionLoad ==
    [][\A p \in Procs :
          Constructs(p)
          => /\ file = NoFile
                => /\ pstate'[p] = "up"
                   /\ ItemsAfter(p) = EmptyMap
                   /\ \A id \in Ids : ~IsReadValue(status'[p], id)
             /\ (file # NoFile /\ FileRecords(file) = {})
                => pstate'[p] = "failed" /\ status'[p] = NoStore
             /\ \A r \in FileRecords(file) :
                   pstate'[p] = "up" /\ ItemsAfter(p) = r.readItems]_vars

\* C13, witness: construction failed over a status file that is there and is
\* not a serialized record, and the process holds no store.
C13_Witness ==
    \E p \in Procs :
        /\ pstate[p] = "failed" /\ status[p] = NoStore
        /\ file # NoFile /\ FileRecords(file) = {}

\* The process took the fallback branch: it is not privileged and its probes
\* of the system paths failed.
FellBack == loc.probed /\ ~(loc.pc = "done" /\ loc.filePath = "system")

Printed(m) == \E i \in 1..Len(out) : out[i] = m

\* The line was read to its newline.
ReadOK(line) == Len(line) > 0 /\ line[Len(line)] = "\n"

\* The line is y or yes in any case, with any white space around it.
IsYesAnswer(line) ==
    \E i \in 0..Len(line), j \in 0..Len(line) :
        /\ i <= j
        /\ \A k \in 1..i : IsSpace(line[k])
        /\ \A k \in (j + 1)..Len(line) : IsSpace(line[k])
        /\ \/ j - i = 1 /\ line[i + 1] \in {"y", "Y"}
           \/ /\ j - i = 3
              /\ line[i + 1] \in {"y", "Y"}
              /\ line[i + 2] \in {"e", "E"}
              /\ line[i + 3] \in {"s", "S"}

\* C14: an unprivileged initialization goes on to per-user storage only after
\* the fallback warning was printed and, when confirmation is required, only
\* after a line answering y or yes was read from standard input; such a line
\* is taken for consent, and any other line, or input ending before a
\* newline, makes the initialization fail as declined.
C14_NoSilentFallback ==
    /\ (loc.pc = "userpaths" \/ loc.filePath = "user")
       => /\ ~isRoot[1]
          /\ Printed("warning")
          /\ loc.req
             => loc.readStdin /\ ReadOK(loc.response) /\ IsYesAnswer(loc.response)
    /\ loc.readStdin
       => (loc.err = ErrDeclined) = ~(ReadOK(loc.response) /\ IsYesAnswer(loc.response))
    /\ loc.err = ErrDeclined => loc.filePath = "" /\ pstate[1] = "failed"

\* C14, witness: per-user storage was chosen after the answer " YeS " was read.
C14_Witness ==
    /\ loc.pc = "done" /\ loc.filePath = "user" /\ loc.req
    /\ loc.response = <<" ", "Y", "e", "S", " ", "\n">>
    /\ Printed("warning")

\* C15: when the probes failed, confirmation is required and the answer is
\* not a consent, initialization fails with the user-declined error, the
\* process holds no store, and up to that point nothing was made at the
\* per-user paths.
C15_DeclineCreatesNothing ==
    [][/\ (loc.pc = "confirm" /\ ~(ReadOK(loc'.response) /\ IsYesAnswer(loc'.response)))
          => loc'.err = ErrDeclined
       /\ loc'.err = ErrDeclined
          => /\ loc.pc = "confirm" /\ loc'.pc = "done"
             /\ pstate'[1] = "failed" /\ status'[1] = NoStore
             /\ loc'.filePath = "" /\ loc'.cacheDir = ""
             /\ paths' = paths /\ file' = file
       /\ loc.pc \in {"cmd", "start", "confirm"}
          => paths'.userCache = paths.userCache]_vars

\* C15, witness: the user answered n; the initialization failed as declined
\* and there is no per-user cache directory.
C15_Witness ==
    /\ loc.err = ErrDeclined /\ loc.response = <<"n", "\n">>
    /\ paths.userCache = "absent" /\ pstate[1] = "failed"

\* C16 as stated: when the probes failed and no confirmation is required,
\* initialization prints the warning, never reads standard input, and ends
\* with the per-user paths and isSystemWide false.
C16_AlwaysEndsPerUser ==
    (loc.pc = "done" /\ FellBack /\ ~loc.req)
    => /\ Printed("warning") /\ ~Printed("prompt") /\ ~loc.readStdin
       /\ loc.filePath = "user" /\ loc.cacheDir = "user"
       /\ ~isSystemWide /\ pstate[1] = "new"

\* C16: when the probes failed and no confirmation is required,
\* initialization prints the warning, never prompts and never reads standard
\* input, and goes on to the per-user paths: it ends with the per-user status
\* file and cache directory and isSystemWide false, unless getting the
\* per-user paths fails, in which case it fails with that error.
C16_NonInteractiveFallback ==
    /\ (FellBack /\ ~loc.req)
       => /\ ~Printed("prompt") /\ ~loc.readStdin
          /\ loc.pc # "confirm"
          /\ loc.pc \in {"userpaths", "done"} => Printed("warning")
    /\ (loc.pc = "done" /\ FellBack /\ ~loc.req)
       => /\ loc.err \in {"nil", ErrUserPaths}
          /\ loc.err = "nil"
             => /\ loc.filePath = "user" /\ loc.cacheDir = "user"
                /\ ~isSystemWide /\ pstate[1] = "new"
                /\ paths.userCache = "present"
          /\ loc.err = ErrUserPaths => pstate[1] = "failed" /\ loc.filePath = ""

\* C16, witness: without confirmation, with an answer waiting unread on
\* standard input, the initialization ended with the per-user paths.
C16_Witness ==
    /\ loc.pc = "done" /\ FellBack /\ ~loc.req
    /\ loc.filePath = "user" /\ ~isSystemWide
    /\ out = <<"warning">>
    /\ stdin = <<"n", "\n">>

\* C17: the check command, the one the package-manager hook runs, initializes
\* storage without requiring confirmation: when its probes of the system paths
\* fail it warns and goes on, and neither prompts nor reads standard input.
C17_CheckNeverPrompts ==
    (cmd.name = "check" /\ FellBack)
    => /\ ~loc.req
       /\ ~Printed("prompt") /\ ~loc.readStdin
       /\ loc.pc # "confirm"

\* The status-file probe: a status file that is there opens for writing, or
\* there is none and its directory can be written.
FileProbe ==
    IF paths.sysFile = "absent" THEN paths.libDir = "0777"
    ELSE paths.sysFile = "0666"

\* The cache-directory probe: the directory is there and can be written.
CacheProbe == paths.sysCache = "0777"

\* C18: an unprivileged process selects system-wide storage if and only if
\* the status-file probe and the cache-directory probe both succeed; otherwise
\* it takes the fallback branch, and the failed probe is no error in itself.
C18_BothProbes ==
    [][(loc.pc = "start" /\ ~isRoot[1] /\ loc'.pc # "start")
       => /\ loc'.probed /\ loc'.err = "nil"
          /\ (FileProbe /\ CacheProbe)
             => /\ loc'.pc = "done" /\ loc'.filePath = "system"
                /\ loc'.cacheDir = "system" /\ isSystemWide'
          /\ ~(FileProbe /\ CacheProbe)
             => /\ loc'.pc \in {"confirm", "warn"} /\ loc'.filePath = ""
                /\ ~isSystemWide' /\ pstate'[1] = "locating"]_vars

AllEntries ==
    {CacheEntry(d, ts, u) : d \in Bodies, ts \in Times, u \in Urls}

\* The entries whose serialization the content is; none when it does not parse.
EntriesOf(content) == {e \in AllEntries : MarshalEntry(e) = content}

\* This step is a call of GetCacheFile.
IsGet == ops' = ops + 1 /\ cres'.op = "get"

\* C20: GetCacheFile(url, maxAge) returns no error; it returns not found,
\* without data, when the cache file of url is absent, unreadable,
\* unparseable, or holds an entry older than maxAge, and otherwise found
\* together with the data of the stored entry; it changes no cache file.
C20_GetCacheFileTotal ==
    [][IsGet
       => LET f == cache[getCacheFilePath(cres'.url)]
              miss == \/ f.content = NoFile
                      \/ ~f.readable
                      \/ EntriesOf(f.content) = {}
                      \/ \E e \in EntriesOf(f.content) :
                            now' - e.timestamp > cres'.maxAge
          IN  /\ cres'.err = "nil"
              /\ cres'.ret.found = ~miss
              /\ miss => cres'.ret.data = NoData
              /\ ~miss => \A e \in EntriesOf(f.content) : cres'.ret.data = e.data
              /\ cache' = cache]_vars

\* C20, witness: GetCacheFile has reported not found for a URL whose cache
\* file is there, readable, and no serialized entry.
C20_Witness ==
    /\ cres.op = "get" /\ ~cres.ret.found
    /\ LET f == cache[getCacheFilePath(cres.url)]
       IN  f.content # NoFile /\ f.readable /\ EntriesOf(f.content) = {}

\* This step is a call of SetCacheFile that returned no error.
IsSetOK == ops' = ops + 1 /\ cres'.op = "set" /\ cres'.err = "nil"

\* C21: an entry SetCacheFile writes carries the time of the write, T; a
\* GetCacheFile over a readable entry written at T reports it found exactly
\* when now - T <= maxAge, so an age equal to maxAge is still valid, and not
\* found when now - T > maxAge.
C21_ExpiryBoundary ==
    [][/\ IsSetOK
          => \A e \in EntriesOf(cache'[getCacheFilePath(cres'.url)].content) :
                e.timestamp = now'
       /\ IsGet
          => LET f == cache[getCacheFilePath(cres'.url)]
             IN  f.readable
                 => \A e \in EntriesOf(f.content) :
                       /\ now' - e.timestamp <= cres'.maxAge => cres'.ret.found
                       /\ now' - e.timestamp > cres'.maxAge => ~cres'.ret.found]_vars

\* C21, witness: GetCacheFile has found an entry whose age equals a maxAge
\* that is not zero.
C21_Witness ==
    /\ cres.op = "get" /\ cres.ret.found /\ cres.maxAge > 0
    /\ \E e \in EntriesOf(cache[getCacheFilePath(cres.url)].content) :
          now - e.timestamp = cres.maxAge

\* The calls of SetCacheFile before the last call.
SetsBefore == {i \in 1..(Len(clog) - 1) : clog[i].op = "set"}

\* The greatest member of a set of numbers that is not empty.
Max(S) == CHOOSE m \in S : \A n \in S : n <= m

\* C22: when the last call is GetCacheFile(url, maxAge), the most recent
\* SetCacheFile before it was for url and returned no error, and no more than
\* maxAge has passed since, the call returns found with the bytes of that
\* SetCacheFile, whatever earlier calls had stored for url.
C22_SetThenGet ==
    (cres.op = "get" /\ SetsBefore # {})
    => LET set == clog[Max(SetsBefore)]
       IN  (set.url = cres.url /\ set.err = "nil" /\ cres.at - set.at <= cres.maxAge)
           => cres.ret.found /\ cres.ret.data = set.data

\* C22, witness: two SetCacheFile calls with different bytes for one URL have
\* returned no error, and GetCacheFile has then found the bytes of the second.
C22_Witness ==
    /\ Len(clog) = 3
    /\ clog[1].op = "set" /\ clog[1].err = "nil"
    /\ clog[2].op = "set" /\ clog[2].err = "nil"
    /\ clog[1].url = clog[2].url /\ clog[1].data # clog[2].data
    /\ clog[1].at # clog[2].at
    /\ cres.op = "get" /\ cres.url = clog[2].url
    /\ cres.ret.found /\ cres.ret.data = clog[2].data

\* C23: GetCacheFile leaves every cache file as it is, so an entry older than
\* maxAge is not returned and stays in its file; a cache file changes only in
\* a SetCacheFile that writes its path, and a file that is there is never
\* removed.
C23_LazyExpiry ==
    [][/\ IsGet => cache' = cache
       /\ \A path \in CachePaths :
            /\ cache'[path] # cache[path]
               => cres'.op = "set" /\ getCacheFilePath(cres'.url) = path
            /\ cache[path].content # NoFile => cache'[path].content # NoFile]_vars

\* C23, witness: GetCacheFile has reported not found for an entry older than
\* maxAge, and the entry is still in its file.
C23_Witness ==
    /\ cres.op = "get" /\ ~cres.ret.found
    /\ LET f == cache[getCacheFilePath(cres.url)]
       IN  /\ f.readable
           /\ \E e \in EntriesOf(f.content) : cres.at - e.timestamp > cres.maxAge

\* C24: a SetCacheFile for one URL leaves what GetCacheFile returns for every
\* other URL, at any time and for any maxAge, as it was.
C24_KeyedByUrl ==
    [][(ops' = ops + 1 /\ cres'.op = "set")
       => \A v \in Urls \ {cres'.url} : \A at \in Times, maxAge \in 0..MaxAge :
             GetCacheFileResult(cache'[getCacheFilePath(v)], at, maxAge)
               = GetCacheFileResult(cache[getCacheFilePath(v)], at, maxAge)]_vars

\* What this step added to the log.
Added == SubSeq(clog', Len(clog) + 1, Len(clog'))

\* This step is a call of ParseFeedWithStorage with a cache handle.
IsFetch == ops' = ops + 1 /\ cres'.op = "fetch" /\ Added # <<>> /\ Added[1].op = "get"

\* C25: a feed fetch with a cache handle begins with GetCacheFile; when that
\* finds the entry the fetch makes no network request and writes nothing to
\* the cache; when it does not, the fetch makes one network request and, the
\* request having succeeded, one SetCacheFile with the bytes fetched.
C25_CacheBeforeNetwork ==
    [][(ops' = ops + 1 /\ cres'.op = "fetch" /\ Added # <<>> /\ Added[1].op # "http")
       => /\ Added[1].op = "get"
          /\ Added[1].ret.found => Len(Added) = 1 /\ cache' = cache
          /\ ~Added[1].ret.found
             => /\ Len(Added) >= 2 /\ Added[2].op = "http"
                /\ \A i \in 3..Len(Added) : Added[i].op # "http"
                /\ Added[2].err = "nil"
                   => /\ Len(Added) >= 3 /\ Added[3].op = "set"
                      /\ Added[3].data = Added[2].body
                      /\ \A i \in 4..Len(Added) : Added[i].op # "set"]_vars

\* C26: when SetCacheFile returns an error after the body was fetched, the
\* feed fetch logs a warning and returns what parsing the fetched bytes
\* gives, as it does when the write succeeds.
C26_CacheWriteFailureNotFatal ==
    [][IsFetch
       => \A i \in 1..Len(Added) :
             (Added[i].op = "set" /\ Added[i].err # "nil")
             => /\ i < Len(Added) /\ Added[i + 1].op = "warn"
                /\ cres'.ret = parseItems(Added[i].data)]_vars

\* C26, witness: a feed fetch whose SetCacheFile failed has returned the
\* items of the fetched body.
C26_Witness ==
    /\ cres.op = "fetch" /\ cres.ret.err = "nil" /\ cres.ret.items # <<>>
    /\ Len(clog) >= 2
    /\ clog[Len(clog)].op = "warn"
    /\ clog[Len(clog) - 1].op = "set" /\ clog[Len(clog) - 1].err # "nil"

\* C27: when storage is system-wide, the status file is readable and writable
\* by all users (0666) whenever save returns no error, whether or not the
\* process is privileged and whether or not the file was there before.
C27_SystemWideFileMode ==
    [][\A t \in Threads :
          (pc[t] = "chmod" /\ pc'[t] = "ret" /\ ret'[t].err = "nil" /\ isSystemWide)
          => fileMode' = "0666"]_vars

\* C28: when save returns an error after it began writing, from the write of
\* the temporary file or from the rename, no temporary file is left.
C28_NoTemporaryFileLeft ==
    [][\A t \in Threads :
          (pc[t] \in {"write", "rename"} /\ pc'[t] = "ret" /\ ret'[t].err # "nil")
          => tmp' = NoFile]_vars

\* C29: a check command that ends without an error exits with a status equal
\* to the number of unread items it found.
C29_ExitStatusIsUnreadCount ==
    \A p \in Procs :
        (chk[p].pc = "exited" /\ chk[p].err = "nil")
        => chk[p].code = chk[p].unreadCount

\* The check command of process p counts its unread items in this step.
Counts(p) == chk[p].pc = "start" /\ chk'[p].pc \in {"marking", "exited"} /\ pstate[p] = "up"

\* C30: a check that finds exactly one unread item prints it and calls
\* MarkAsRead for it, and once that returned no error the next check over the
\* same feeds finds no unread item; a check that finds no unread item, or more
\* than one, calls no operation of the store and leaves the read items and the
\* status file as they are.
C30_CheckMarksSingleItem ==
    /\ [](\A p, q \in Procs :
            (p < q /\ chk[p].pc = "exited" /\ chk[p].err = "nil"
                   /\ chk[p].unreadCount = 1 /\ chk[q].pc = "exited")
            => chk[q].err = "nil" /\ chk[q].unreadCount = 0)
    /\ [][\A p \in Procs :
            Counts(p)
            => LET unread == UnreadItems(status[p], chk[p].feed)
               IN  IF Len(unread) = 1
                   THEN /\ out' = Append(out, <<"item", unread[1]>>)
                        /\ op'[p].kind = "MarkAsRead" /\ op'[p].id = unread[1]
                        /\ pc'[p] = "locked"
                   ELSE /\ chk'[p].pc = "exited"
                        /\ pc' = pc /\ op' = op
                        /\ status' = status /\ file' = file]_vars

\* C30, witness: a check has found one unread item and marked it read, and
\* the check after it has found none.
C30_Witness ==
    /\ chk[1].pc = "exited" /\ chk[1].err = "nil" /\ chk[1].unreadCount = 1
    /\ chk[2].pc = "exited" /\ chk[2].err = "nil" /\ chk[2].unreadCount = 0
    /\ chk[1].item \in DOMAIN Unmarshal(file).readItems

\* C32: whenever save returns an error, the status file is, in content and in
\* existence, what it was when the save was called.
C32_FailedSaveLeavesFile ==
    \A t \in Threads : Failed(t) => file = before[t]

\* The bodies the cache files held at the start.
StoredAtStart ==
    {d \in Bodies : \E u \in Urls :
        CacheFile(MarshalEntry(CacheEntry(d, 0, u)), TRUE) \in InitCacheFiles(u)}

\* The bodies the calls of SetCacheFile so far were given.
Supplied == {clog[i].data : i \in {j \in 1..Len(clog) : clog[j].op = "call"}}

\* C33: a GetCacheFile that runs while calls of SetCacheFile are under way
\* returns found only with bytes the cache held before or a SetCacheFile call
\* was given, never with other bytes.
C33_ConcurrentGetSeesSuppliedBytes ==
    (cres.op = "get" /\ cres.ret.found)
    => cres.ret.data \in StoredAtStart \cup Supplied

\* C34: a feed fetch calls SetCacheFile only after a network request that
\* returned status 200 and whose body was read to the end of the stream, and
\* with the complete body of that response; never after a transport error, a
\* status other than 200, or a read that another error cut short.
C34_CacheOnlyCompleteBodies ==
    [][IsFetch
       => \A i \in 1..Len(Added) :
             Added[i].op = "set"
             => /\ i > 1 /\ Added[i - 1].op = "http"
                /\ Added[i - 1].err = "nil"
                /\ Added[i - 1].readErr = "EOF"
                /\ Added[i].data = Added[i - 1].sent]_vars

\* C36: the store of every process constructed over a status file that
\* parses, one with read_items null or absent included, holds a map that can be
\* assigned to, and no operation on it ends the process in a panic.
C36_ReadItemsUsable ==
    \A p \in Procs :
        /\ pstate[p] = "up" => ~status[p].isNil
        /\ pstate[p] # "panicked"

\* C37: every call of a store operation that has reached the lock eventually
\* returns to its caller with the lock released, whatever save does.
C37_EveryCallReturns ==
    \A t \in Threads : (pc[t] = "waiting") ~> (pc[t] = "idle")

\* The directory a path lies directly under.
Parent(path) == SubSeq(path, 1, Len(path) - 1)

\* dir is the directory home or lies under it.
UnderHome(dir, home) ==
    home # <<>> /\ Len(dir) >= Len(home) /\ SubSeq(dir, 1, Len(home)) = home

\* C38: after a fallback that succeeded, the per-user status file and the
\* per-user cache directory lie directly under one directory, which is
\* $XDG_CONFIG_HOME whenever that is set and otherwise a directory under the
\* user's home, and the cache directory exists.
C38_UserPathsUnderConfigDir ==
    (loc.pc = "done" /\ loc.err = "nil" /\ loc.filePath = "user")
    => /\ Parent(loc.userCache) = Parent(loc.userFile)
       /\ loc.env.xdg # <<>> => Parent(loc.userFile) = loc.env.xdg
       /\ loc.env.xdg = <<>> => UnderHome(Parent(loc.userFile), loc.env.home)
       /\ paths.userCache = "present"

\* C35: the first save of an unprivileged process that chose the system
\* paths because its probes passed is refused no permission.
C35_FirstSavePermitted ==
    (loc.pc = "saved" /\ loc.probed) => loc.err = "nil"

\* C31: read N displays and marks as read the item that list printed with
\* index N, whatever flags list was given and whether or not items share a
\* published time.
C31_ReadIndexIsListIndex ==
    (chk[1].pc = "exited" /\ chk[2].pc \in {"marking", "exited"})
    => /\ chk[2].err # ErrItemNotFound
       /\ chk[2].target = chk[1].shown[chk[2].index].id

====
